---- MODULE Spec2Model ----
(***************************************************************************)
(* Model of the warehouse digital twin of src/core.py:                     *)
(* WarehouseDigitalTwin (order_generator, order_process, run_simulation,   *)
(* _record_event, calculate_sync_drift), the ERP adapter it is synced      *)
(* from, and the SimPy environment and resources it drives.                *)
(*                                                                         *)
(* Virtual time is an integer number of ticks.  Every sampled delay of the *)
(* code is floored at 0.1 (or is an exponential inter-arrival), so delays  *)
(* are drawn from 1..MaxDelay; equal wake times (ties) are possible.       *)
(***************************************************************************)
EXTENDS Integers, Sequences, FiniteSets, TLC

VARIABLES
    config,            \* SimulationConfig fields read by the modelled code
    now,               \* env.now
    queue,             \* the environment's event queue, in firing order
    phase,             \* "idle": no env.run in progress; "running"; "error"
    pools,             \* the simpy.Resource objects ever created
    workers,           \* self.workers  (index into pools)
    forklifts,         \* self.forklifts (index into pools)
    orders,            \* the Order objects created by the generators
    procs,             \* per order object: the state of its order_process
    gens,              \* per order_generator process: its local order_count
    active_orders,     \* self.active_orders: order_id -> order object
    completed_orders,  \* self.completed_orders
    inventory,         \* self.inventory: sku -> on-hand quantity
    adapter,           \* the ERP adapter: kind, connected, inventory
    event_buffer,      \* self.event_buffer (deque with maxlen)
    buffer_maxlen,     \* the deque's maxlen, fixed at construction
    recorded,          \* history: number of _record_event calls so far
    metrics,           \* self.metrics
    last_drift,        \* return value of the latest calculate_sync_drift
    drift_calls,       \* history: number of calculate_sync_drift calls
    rng,               \* state of the process-wide random module
    scenario,          \* run_what_if_scenario in progress: its locals
    results,           \* history: what each finished run returned
    subscribers,       \* adapter.event_callbacks: the events each received
    ret,               \* return value of the latest adapter update call
    calib,             \* calibrate_from_erp_logs: its input and its results
    orders_queue,      \* self.orders_queue: ERP orders synced at construction
    base_config        \* the SimulationConfig object given to __init__:
                       \* its fields, and whether self.config is that object

vars == <<config, now, queue, phase, pools, workers, forklifts, orders, procs,
          gens, active_orders, completed_orders, inventory, adapter,
          event_buffer, buffer_maxlen, recorded, metrics, last_drift,
          drift_calls, rng, scenario, results, subscribers, ret, calib,
          orders_queue, base_config>>

\* the variables that construction sets and the simulation engine and
\* calculate_sync_drift leave alone
others == <<rng, scenario, results, subscribers, ret, calib, orders_queue,
            base_config>>

----------------------------------------------------------------------------
(* Bounds of the model. *)

NumSkus == 2          \* SKUs 1..NumSkus (num_storage_locations)
MaxOrders == 3        \* Spec: orders created over the twin's lifetime
MaxRuns == 1          \* run_simulation calls over the twin's lifetime
MaxDelay == 2         \* largest sampled delay, in ticks
MaxTime == 8          \* largest run duration, in ticks
MaxInitQty == 2       \* largest initial on-hand quantity
MaxCapacity == 2      \* largest num_workers / num_forklifts
EventBufferSize == 3  \* event_buffer_size
PoolMaxQty == 1       \* Spec: largest line quantity drawn
PoolMaxPriority == 1  \* Spec: largest order priority drawn
PickMaxOrders == 1    \* SpecPick: orders created over the twin's lifetime
MaxDriftCalls == 2    \* calculate_sync_drift calls
MaxDeficit == 1       \* SpecDrift: lowest on-hand quantity is -MaxDeficit

MaxRngState == 10     \* states of the random module: 0..MaxRngState
SeedTime == 24        \* SpecSeed: run duration, in ticks
MaxSubscribers == 2   \* SpecAdapter: subscribe_to_events calls
MaxAdapterOrders == 2 \* SpecAdapter: create_order calls
MaxAdapterCalls == 3  \* SpecAdapter: update calls
MaxChange == 1        \* SpecAdapter: largest |quantity_change|
MaxEvents == 3        \* SpecCalib: longest event log
MaxStamp == 3         \* SpecCalib: latest timestamp drawn, in minutes
NumCalibOrders == 2   \* SpecCalib, SpecCalibLog: order ids of a log
PickGap == 3          \* timedelta(minutes=3)
PackGap == 2          \* timedelta(minutes=5) after the 3
WhatIfMaxOrders == 2  \* SpecWhatIf: orders created over all runs
RerunMaxOrders == 3   \* SpecRerun: orders created over the two runs
DirectMaxOrders == 2  \* SpecDirect: orders created or handed in
DirectMaxQty == 2     \* SpecDirect: largest quantity of a handed-in line
ArriveMaxOrders == 1  \* SpecArrive: orders created over the twin's lifetime
LongMaxOrders == 2    \* SpecLong: orders created before arrivals stop
MaxCalibrations == 2  \* SpecCalibHistory: calibrate_from_erp_logs calls
MaxCompletions == 2   \* SpecMetrics: record_order_completion calls

MaxLineQty == 3       \* random.randint(1, 3)
MaxPriority == 5      \* random.randint(1, 5)
RandomSeed == 42      \* random_seed: int = 42

SKUs == 1..NumSkus
Delays == 1..MaxDelay
RunDurations == {MaxTime \div 2, MaxTime}

\* SpecLong: a duration that lets LongMaxOrders orders arrive and then go
\* through one worker one after the other: per order one arrival, and two
\* delays per line, one for packing and one for shipping.
LongTime == MaxDelay * LongMaxOrders * (2 * NumSkus + 3) + 1
None == -1

(* OrderStatus, in declaration order. *)
StatusSeq == <<"received", "picking", "picked", "packing", "packed",
               "shipping", "completed">>

URGENT == 0
NORMAL == 1

----------------------------------------------------------------------------
(* The SimPy environment: a queue ordered by (time, priority, insertion).  *)

\* heappush(queue, (time, priority, next(eid), event)): e goes after every
\* entry whose (time, priority) is not larger.
Schedule(q, e) ==
    LET k == Cardinality({i \in 1..Len(q) :
                 q[i].t < e.t \/ (q[i].t = e.t /\ q[i].prio <= e.prio)})
    IN SubSeq(q, 1, k) \o <<e>> \o SubSeq(q, k + 1, Len(q))

Ev(t, prio, kind, who, proc, pool) ==
    [t |-> t, prio |-> prio, kind |-> kind, who |-> who, proc |-> proc,
     pool |-> pool]

\* yield env.timeout(delay) by process (who, p) at time t
Timeout(q, t, who, p, delay) ==
    Schedule(q, Ev(t + delay, NORMAL, "timeout", who, p, 0))

\* env.process(generator) at time t: an Initialize event, URGENT
Process(q, t, who, p) == Schedule(q, Ev(t, URGENT, "init", who, p, 0))

----------------------------------------------------------------------------
(* simpy.Resource: users (granted requests) and a FIFO put queue.          *)

NewResource(capacity) ==
    [capacity |-> capacity, users |-> {}, waiting |-> <<>>]

\* Resource._trigger_put at time t: only the head of the put queue is tried;
\* when a slot is free it becomes a user and its request event is scheduled.
\* ps, q: the pools and the event queue so far.  Result: [pools, queue].
\* A grant that keeps one slot back
TriggerPut_OneLess(ps, q, t, r) ==
    IF ps[r].waiting # <<>> /\ Cardinality(ps[r].users) + 1 < ps[r].capacity
    THEN LET p == Head(ps[r].waiting)
         IN [pools |-> [ps EXCEPT ![r].users = @ \cup {p},
                                  ![r].waiting = Tail(@)],
             queue |-> Schedule(q, Ev(t, NORMAL, "grant", "order", p, r))]
    ELSE [pools |-> ps, queue |-> q]

TriggerPut(ps, q, t, r) ==
    IF ps[r].waiting # <<>> /\ Cardinality(ps[r].users) < ps[r].capacity
    THEN LET p == Head(ps[r].waiting)
         IN [pools |-> [ps EXCEPT ![r].users = @ \cup {p},
                                  ![r].waiting = Tail(@)],
             queue |-> Schedule(q, Ev(t, NORMAL, "grant", "order", p, r))]
    ELSE [pools |-> ps, queue |-> q]

\* Request with the new request put ahead of the waiting ones
Request_Front(ps, q, t, r, p) ==
    TriggerPut([ps EXCEPT ![r].waiting = <<p>> \o @], q, t, r)

\* resource.request() by order process p: appended to the put queue, then
\* _trigger_put.
Request(ps, q, t, r, p) ==
    TriggerPut([ps EXCEPT ![r].waiting = Append(@, p)], q, t, r)

\* Leaving the with block: resource.release(req).  The user is removed at
\* once and a Release event is scheduled, whose callback is _trigger_put.
\* A release that frees the slot and schedules nothing
Release_NoEvent(ps, q, t, r, p) ==
    [pools |-> [ps EXCEPT ![r].users = @ \ {p}], queue |-> q]

\* A release that schedules its event and leaves the user in place
Release_Keeps(ps, q, t, r, p) ==
    [pools |-> ps,
     queue |-> Schedule(q, Ev(t, NORMAL, "release", "env", 0, r))]

Release(ps, q, t, r, p) ==
    [pools |-> [ps EXCEPT ![r].users = @ \ {p}],
     queue |-> Schedule(q, Ev(t, NORMAL, "release", "env", 0, r))]

\* simpy.Resource(env, capacity) raises ValueError unless capacity > 0
ValidCapacity(capacity) == capacity > 0

\* _initialize_resources raises: one of the two capacities is refused
ResourcesRaise(cfg) ==
    ~ValidCapacity(cfg.num_workers) \/ ~ValidCapacity(cfg.num_forklifts)

\* InitializeResources with the two capacities taken from the wrong fields
InitializeResources_Swapped(ps, cfg) ==
    ps \o <<NewResource(cfg.num_forklifts), NewResource(cfg.num_workers)>>

\* _initialize_resources: two fresh resources from the configuration
InitializeResources(ps, cfg) ==
    ps \o <<NewResource(cfg.num_workers), NewResource(cfg.num_forklifts)>>

----------------------------------------------------------------------------
(* Orders, events, metrics.                                                *)

RECURSIVE SumSeq(_)
SumSeq(s) == IF s = <<>> THEN 0 ELSE Head(s) + SumSeq(Tail(s))

\* Order.total_items
total_items(o) == SumSeq([i \in 1..Len(o.lines) |-> o.lines[i].quantity])

\* Order.picked_items
picked_items(o) ==
    SumSeq([i \in 1..Len(o.lines) |-> o.lines[i].picked_quantity])

\* Order.is_fully_picked
is_fully_picked(o) ==
    \A i \in 1..Len(o.lines) :
        o.lines[i].picked_quantity >= o.lines[i].quantity

OrderLine(sku, quantity) ==
    [sku |-> sku, quantity |-> quantity, picked_quantity |-> 0]

\* Order(order_id, lines): status RECEIVED, no phase timestamp.  trace is
\* the history of the values assigned to status.
Order(order_id, lines) ==
    [order_id |-> order_id, lines |-> lines, status |-> "received",
     priority |-> 1, trace |-> <<"received">>,
     pick_start_time |-> None, pick_end_time |-> None,
     pack_start_time |-> None, pack_end_time |-> None]

\* order.status = s
SetStatus(o, s) == [o EXCEPT !.status = s, !.trace = Append(@, s)]

\* DequeAppend on a deque built without maxlen
DequeAppend_Unbounded(buf, x, m) == Append(buf, x)

\* An append at the left end of the deque
DequeAppend_Left(buf, x, m) ==
    IF m = 0 THEN buf
    ELSE IF Len(buf) >= m THEN <<x>> \o SubSeq(buf, 1, Len(buf) - 1)
    ELSE <<x>> \o buf

\* deque(maxlen=m).append(x)
DequeAppend(buf, x, m) ==
    IF m = 0 THEN buf
    ELSE IF Len(buf) >= m THEN Append(Tail(buf), x)
    ELSE Append(buf, x)

NoData == [order_id |-> 0, status |-> "", sku |-> 0, change |-> 0,
           drift |-> <<0, 1>>, threshold |-> <<0, 1>>]

\* _record_event(event_type, data): the identifier is the buffer's current
\* length.  seq is the history number of the recording (not a field of the
\* code's event).
RecordEvent(buf, event_type, data) ==
    DequeAppend(buf,
                [event_id |-> Len(buf), event_type |-> event_type,
                 data |-> data, seq |-> recorded + 1],
                buffer_maxlen)

\* Python truthiness of an Optional[float]
Truthy(x) == x # None /\ x # 0

\* DigitalTwinMetrics()
NewMetrics ==
    [orders_completed |-> 0, total_items_picked |-> 0,
     total_order_time |-> 0, total_picking_time |-> 0,
     total_packing_time |-> 0,
     order_times |-> <<>>, pick_times |-> <<>>, pack_times |-> <<>>,
     items_per_order |-> <<>>]

\* DigitalTwinMetrics.record_order_completion(order, total_time)
\* A completion that does not count the order's items
record_order_completion_NoItems(m, o, total_time) ==
    [m EXCEPT !.orders_completed = @ + 1,
              !.total_order_time = @ + total_time,
              !.order_times = Append(@, total_time),
              !.items_per_order = Append(@, total_items(o))]

record_order_completion(m, o, total_time) ==
    LET m1 == [m EXCEPT !.orders_completed = @ + 1,
                        !.total_items_picked = @ + total_items(o),
                        !.total_order_time = @ + total_time,
                        !.order_times = Append(@, total_time),
                        !.items_per_order = Append(@, total_items(o))]
        m2 == IF Truthy(o.pick_end_time) /\ Truthy(o.pick_start_time)
              THEN [m1 EXCEPT
                      !.total_picking_time =
                          @ + (o.pick_end_time - o.pick_start_time),
                      !.pick_times =
                          Append(@, o.pick_end_time - o.pick_start_time)]
              ELSE m1
    IN IF Truthy(o.pack_end_time) /\ Truthy(o.pack_start_time)
       THEN [m2 EXCEPT
               !.total_packing_time =
                   @ + (o.pack_end_time - o.pack_start_time),
               !.pack_times =
                   Append(@, o.pack_end_time - o.pack_start_time)]
       ELSE m2

Max(a, b) == IF a >= b THEN a ELSE b

\* statistics.median of a non-empty list, as a fraction
Median(xs) ==
    LET srt == SortSeq(xs, LAMBDA a, b : a < b)
        n == Len(xs)
    IN IF n % 2 = 1 THEN <<srt[(n + 1) \div 2], 1>>
       ELSE <<srt[n \div 2] + srt[n \div 2 + 1], 2>>

\* statistics.stdev of a list of at least two values, as its square (the
\* sample variance), a fraction
StdevSquared(xs) ==
    LET n == Len(xs)
        sq == [i \in 1..n |-> xs[i] * xs[i]]
    IN <<n * SumSeq(sq) - SumSeq(xs) * SumSeq(xs), n * (n - 1)>>

\* min / max of a non-empty list
MinOf(xs) == CHOOSE x \in {xs[i] : i \in 1..Len(xs)} :
                 \A i \in 1..Len(xs) : x <= xs[i]
MaxOf(xs) == CHOOSE x \in {xs[i] : i \in 1..Len(xs)} :
                 \A i \in 1..Len(xs) : x >= xs[i]

\* DigitalTwinMetrics.get_summary().  Averages and throughputs are
\* fractions <<numerator, denominator>>; has_times tells whether the
\* order-time keys are present, has_throughput whether the throughput keys
\* are; an absent key is None.  60.0 / summary['avg_order_time'] raises
\* ZeroDivisionError when the average is 0: raised tells that the call
\* ended so, returning nothing.
get_summary(m) ==
    LET n == Max(1, m.orders_completed)
        times == m.order_times # <<>>
        zero == m.orders_completed > 0 /\ times /\ m.total_order_time = 0
        through == m.orders_completed > 0 /\ times /\ ~zero
    IN [raised |-> zero,
        orders_completed |-> m.orders_completed,
        total_items_picked |-> m.total_items_picked,
        avg_order_time |-> <<m.total_order_time, n>>,
        avg_picking_time |-> <<m.total_picking_time, n>>,
        avg_packing_time |-> <<m.total_packing_time, n>>,
        avg_items_per_order |-> <<m.total_items_picked, n>>,
        has_times |-> times,
        order_time_std |->
            IF ~times THEN None
            ELSE IF Len(m.order_times) > 1 THEN StdevSquared(m.order_times)
            ELSE <<0, 1>>,
        order_time_min |-> IF times THEN MinOf(m.order_times) ELSE None,
        order_time_max |-> IF times THEN MaxOf(m.order_times) ELSE None,
        order_time_median |->
            IF times THEN Median(m.order_times) ELSE None,
        has_throughput |-> through,
        throughput_orders_per_hour |->
            IF through THEN <<60 * n, m.total_order_time>> ELSE None,
        throughput_items_per_hour |->
            IF through
            THEN <<60 * n * m.total_items_picked, m.total_order_time * n>>
            ELSE None]

----------------------------------------------------------------------------
(* Construction: MockERPAdapter / an external adapter, then the twin.      *)

EmptyMap == [s \in {} |-> 0]

\* random.seed(s): the state the module is left in
Seed(s) == s % (MaxRngState + 1)

\* no run_what_if_scenario in progress
NoScenario ==
    [active |-> FALSE, outcome |-> "none", original_config |-> None,
     start |-> None, simulation_time |-> None, gen |-> None]

\* calibrate_from_erp_logs not called yet
\* No adapter call has returned yet
NoCall == [call |-> "none"]

NoCalib ==
    [called |-> FALSE, events |-> <<>>, pick_times |-> <<>>,
     pack_times |-> <<>>, calibrated |-> EmptyMap,
     calibration_data |-> <<>>]

\* A twin built from cfg and adp that has run nothing yet, with twin
\* inventory inv.  When _initialize_resources raises, the constructor
\* raises (phase "error") and there is no twin to call.  Without SimPy
\* (simpy_available false) self.env is None and no resource is built:
\* phase "unavailable".
\* MockERPAdapter.fetch_orders(status): the orders with that status, in the
\* order of the dictionary; an order is named by its place in adp.orders
\* A fetch that takes every order, whatever its status
FetchOrders_All(adp, status) == [k \in 1..Len(adp.orders) |-> k]

FetchOrders(adp, status) ==
    SelectSeq([k \in 1..Len(adp.orders) |-> k],
              LAMBDA k : adp.orders[k].status = status)

TwinStateWith(cfg, adp, inv, simpy_available) ==
    /\ config = cfg
    /\ adapter = adp
    /\ now = 0
    /\ queue = <<>>
    /\ phase = IF ~simpy_available THEN "unavailable"
               ELSE IF ResourcesRaise(cfg) THEN "error" ELSE "idle"
    /\ pools = IF ~simpy_available \/ ResourcesRaise(cfg) THEN <<>>
               ELSE InitializeResources(<<>>, cfg)
    /\ workers = 1
    /\ forklifts = 2
    /\ orders = <<>>
    /\ procs = <<>>
    /\ gens = <<>>
    /\ active_orders = EmptyMap
    /\ completed_orders = <<>>
    /\ inventory = inv
    /\ event_buffer = <<>>
    /\ buffer_maxlen = cfg.event_buffer_size
    /\ recorded = 0
    /\ metrics = NewMetrics
    /\ last_drift = <<0, 1>>
    /\ drift_calls = 0
    /\ rng = Seed(cfg.random_seed)
    /\ scenario = NoScenario
    /\ results = <<>>
    /\ subscribers = <<>>
    /\ ret = NoCall
    /\ calib = NoCalib
    /\ orders_queue =
          IF adp.connected /\ ~(simpy_available /\ ResourcesRaise(cfg))
          THEN FetchOrders(adp, "received") ELSE <<>>
    /\ base_config = [fields |-> cfg, is_self_config |-> TRUE]

TwinState(cfg, adp, inv) == TwinStateWith(cfg, adp, inv, TRUE)

\* _sync_from_erp: the inventory is fetched only from a connected adapter
SyncFromErp(adp) == IF adp.connected THEN adp.inventory ELSE EmptyMap

\* WarehouseDigitalTwin.__init__ with _initialize_resources and
\* _sync_from_erp: the state right after construction.
Constructed(cfg, adp) ==
    TwinState(cfg, adp,
              IF ResourcesRaise(cfg) THEN EmptyMap ELSE SyncFromErp(adp))

\* SimulationConfig: the fields the modelled code reads.  sync_threshold
\* and the mean times are fractions <<numerator, denominator>>: the default
\* 0.05 is <<1, 20>>.  A standard deviation is held as its square: the
\* default 0.5 is <<1, 4>>, 0.8 is <<16, 25>>.
Config(nw, nf, th) ==
    [simulation_time |-> MaxTime, random_seed |-> RandomSeed,
     num_storage_locations |-> NumSkus,
     num_workers |-> nw, num_forklifts |-> nf,
     pick_time_mean |-> <<2, 1>>, pick_time_std |-> <<1, 4>>,
     pack_time_mean |-> <<3, 1>>, pack_time_std |-> <<16, 25>>,
     event_buffer_size |-> EventBufferSize, sync_threshold |-> th]

\* The adapter.  kind "mock": MockERPAdapter, whose fetch_inventory hands
\* out its own InventoryItem objects; kind "port": another ERPAdapterPort
\* implementation, which builds fresh items on every fetch.
Adapter(kind, connected, inv) ==
    [kind |-> kind, connected |-> connected, inventory |-> inv,
     orders |-> <<>>, event_counter |-> 0]

\* Spec: a connected mock adapter with every SKU at MaxInitQty, and any
\* capacities.
Init ==
    \E nw \in 1..MaxCapacity, nf \in 1..MaxCapacity :
        Constructed(Config(nw, nf, <<1, 20>>),
                    Adapter("mock", TRUE, [s \in SKUs |-> MaxInitQty]))

\* SpecPick: one worker and one forklift, either kind of adapter, any
\* initial quantities.
InitPick ==
    \E kind \in {"mock", "port"}, inv \in [SKUs -> 1..MaxInitQty] :
        Constructed(Config(1, 1, <<1, 20>>), Adapter(kind, TRUE, inv))

----------------------------------------------------------------------------
(* run_simulation and the processes it drives.                             *)

Firing(kind, who) ==
    /\ phase = "running"
    /\ queue # <<>>
    /\ Head(queue).kind = kind
    /\ Head(queue).who = who

\* run_simulation(duration): starts an order generator, then env.run(until).
\* env.run raises ValueError when until <= env.now, after the generator has
\* been scheduled.
RunSimulation(maxRuns, duration) ==
    /\ phase = "idle"
    /\ Len(gens) < maxRuns
    /\ gens' = Append(gens, [order_count |-> 0])
    /\ LET q1 == Process(queue, now, "gen", Len(gens) + 1)
       IN IF duration <= now
          THEN /\ queue' = q1
               /\ phase' = "idle"
          ELSE /\ queue' = Schedule(q1, Ev(duration, URGENT, "until",
                                           "env", 0, 0))
               /\ phase' = "running"
    /\ UNCHANGED <<config, now, pools, workers, forklifts, orders, procs,
                   active_orders, completed_orders, inventory, adapter,
                   event_buffer, buffer_maxlen, recorded, metrics,
                   last_drift, drift_calls>>

\* The until event fires: StopSimulation, env.run returns.
StopSimulation ==
    /\ Firing("until", "env")
    /\ now' = Head(queue).t
    /\ queue' = Tail(queue)
    /\ phase' = "idle"
    /\ UNCHANGED <<config, pools, workers, forklifts, orders, procs, gens,
                   active_orders, completed_orders, inventory, adapter,
                   event_buffer, buffer_maxlen, recorded, metrics,
                   last_drift, drift_calls>>

\* A Release event fires: its callback is Resource._trigger_put.
ReleaseFired ==
    /\ Firing("release", "env")
    /\ LET e == Head(queue)
           r == TriggerPut(pools, Tail(queue), e.t, e.pool)
       IN /\ now' = e.t
          /\ pools' = r.pools
          /\ queue' = r.queue
    /\ UNCHANGED <<config, phase, workers, forklifts, orders, procs, gens,
                   active_orders, completed_orders, inventory, adapter,
                   event_buffer, buffer_maxlen, recorded, metrics,
                   last_drift, drift_calls>>

\* order_generator up to its first yield, with inter-arrival time d
GenStartWith(d) ==
    /\ Firing("init", "gen")
    /\ LET e == Head(queue)
       IN /\ now' = e.t
          /\ queue' = Timeout(Tail(queue), e.t, "gen", e.proc, d)
    /\ UNCHANGED <<config, phase, pools, workers, forklifts, orders, procs,
                   gens, active_orders, completed_orders, inventory, adapter,
                   event_buffer, buffer_maxlen, recorded, metrics,
                   last_drift, drift_calls>>

\* order_generator up to its first yield: sample the inter-arrival time.
GenStart == \E d \in Delays : GenStartWith(d)

\* random.sample(available, k): the sequences of k distinct elements
Samples(available, k) ==
    {s \in [1..k -> available] : \A i, j \in 1..k : s[i] = s[j] => i = j}

Min(a, b) == IF a < b THEN a ELSE b

\* d[k] = v on a dict
Put(d, k, v) == [x \in DOMAIN d \cup {k} |-> IF x = k THEN v ELSE d[x]]


\* del d[k]
Del(d, k) == [x \in DOMAIN d \ {k} |-> d[x]]

\* Every SKU of the inventory, in stock or not
Available_All == DOMAIN inventory

\* available_skus
Available == {s \in DOMAIN inventory : inventory[s] > 0}

\* order_generator, one turn of its loop after the inter-arrival timeout,
\* with the SKUs selected, the line quantities qty and the next
\* inter-arrival time d: create an order (or skip when no SKU is in stock),
\* start its process.  The generator is retired once maxOrders orders exist.
GenArriveWith(maxOrders, selected, qty, d, priority) ==
    /\ Firing("timeout", "gen")
    /\ LET e == Head(queue)
           g == e.proc
           order_count == gens[g].order_count + 1
           available == Available
       IN /\ now' = e.t
          /\ IF Len(orders) >= maxOrders
             THEN /\ queue' = Tail(queue)
                  /\ UNCHANGED <<gens, orders, procs, active_orders,
                                 event_buffer, recorded>>
             ELSE /\ gens' = [gens EXCEPT ![g].order_count = order_count]
                  /\ IF available = {}
                     THEN /\ queue' = Timeout(Tail(queue), e.t, "gen", g, d)
                          /\ UNCHANGED <<orders, procs, active_orders,
                                         event_buffer, recorded>>
                     ELSE LET lines == [i \in 1..Len(selected) |->
                                          OrderLine(selected[i], qty[i])]
                              order == [Order(order_count, lines) EXCEPT
                                           !.priority = priority]
                              n == Len(orders) + 1
                              q1 == Process(Tail(queue), e.t, "order", n)
                          IN /\ orders' = Append(orders, order)
                             /\ procs' = Append(procs,
                                   [pc |-> "start", line |-> 0, gen |-> g,
                                    order_start |-> None,
                                    worker_req |-> 0, forklift_req |-> 0])
                             /\ active_orders' =
                                   Put(active_orders, order_count, n)
                             /\ event_buffer' = RecordEvent(event_buffer,
                                   "order_created",
                                   [NoData EXCEPT !.order_id = order_count])
                             /\ recorded' = recorded + 1
                             /\ queue' = Timeout(q1, e.t, "gen", g, d)
    /\ UNCHANGED <<config, phase, pools, workers, forklifts,
                   completed_orders, inventory, adapter, buffer_maxlen,
                   metrics, last_drift, drift_calls>>

\* order_generator, one turn of its loop: num_items, the sample of SKUs,
\* the line quantities (from 1..maxQty) and the next inter-arrival time are
\* drawn.
GenArrive(maxOrders, maxQty, maxPriority) ==
    \E num_items \in 1..NumSkus :
    \E selected \in Samples(Available,
                            Min(num_items, Cardinality(Available))) :
    \E qty \in [1..Len(selected) -> 1..maxQty] :
    \E priority \in 1..maxPriority :
    \E d \in Delays :
        GenArriveWith(maxOrders, selected, qty, d, priority)

----------------------------------------------------------------------------
(* order_process, one action per resumption of the process.                *)

OrderFiring(kind, pc) ==
    /\ Firing(kind, "order")
    /\ procs[Head(queue).proc].pc = pc

\* FinishPicking without the PICKED assignment
FinishPicking_Skipped(o, t) == [o EXCEPT !.pick_end_time = t]

\* order.status = PICKED; order.pick_end_time = env.now
FinishPicking(o, t) == [SetStatus(o, "picked") EXCEPT !.pick_end_time = t]

\* order.status = PACKING; order.pack_start_time = env.now
StartPacking(o, t) == [SetStatus(o, "packing") EXCEPT !.pack_start_time = t]

\* What the order process does from the head of the for loop over the
\* order's lines, at line j, until its next yield: request a forklift for
\* line j, or, past the last line, leave the worker's with block, set PICKED
\* then PACKING and request a worker for packing.
\* Result: [order, proc, pools, queue].
NextLine(o, pr, ps, q, t, i, j) ==
    IF j <= Len(o.lines)
    THEN LET r == Request(ps, q, t, forklifts, i)
         IN [order |-> o,
             proc |-> [pr EXCEPT !.pc = "wait_forklift", !.line = j,
                                 !.forklift_req = forklifts],
             pools |-> r.pools, queue |-> r.queue]
    ELSE LET rel == Release(ps, q, t, pr.worker_req, i)
             r == Request(rel.pools, rel.queue, t, workers, i)
         IN [order |-> StartPacking(FinishPicking(o, t), t),
             proc |-> [pr EXCEPT !.pc = "wait_pack_worker",
                                 !.worker_req = workers],
             pools |-> r.pools, queue |-> r.queue]

\* Start of the process up to "yield worker_req": status PICKING, the
\* status event, then the worker request.
OrderStart ==
    /\ OrderFiring("init", "start")
    /\ LET e == Head(queue)
           i == e.proc
           o == [SetStatus(orders[i], "picking") EXCEPT
                    !.pick_start_time = e.t]
           r == Request(pools, Tail(queue), e.t, workers, i)
       IN /\ now' = e.t
          /\ orders' = [orders EXCEPT ![i] = o]
          /\ event_buffer' = RecordEvent(event_buffer,
                "order_status_changed",
                [NoData EXCEPT !.order_id = o.order_id,
                               !.status = "picking"])
          /\ recorded' = recorded + 1
          /\ procs' = [procs EXCEPT ![i].pc = "wait_worker",
                                    ![i].order_start = e.t,
                                    ![i].worker_req = workers]
          /\ pools' = r.pools
          /\ queue' = r.queue
    /\ UNCHANGED <<config, phase, workers, forklifts, gens, active_orders,
                   completed_orders, inventory, adapter, buffer_maxlen,
                   metrics, last_drift, drift_calls>>

\* The picking worker is granted: WORKER_ASSIGNED, then the first line.
WorkerGranted ==
    /\ OrderFiring("grant", "wait_worker")
    /\ LET e == Head(queue)
           i == e.proc
           n == NextLine(orders[i], procs[i], pools, Tail(queue), e.t, i, 1)
       IN /\ now' = e.t
          /\ event_buffer' = RecordEvent(event_buffer, "worker_assigned",
                [NoData EXCEPT !.order_id = orders[i].order_id])
          /\ recorded' = recorded + 1
          /\ orders' = [orders EXCEPT ![i] = n.order]
          /\ procs' = [procs EXCEPT ![i] = n.proc]
          /\ pools' = n.pools
          /\ queue' = n.queue
    /\ UNCHANGED <<config, phase, workers, forklifts, gens, active_orders,
                   completed_orders, inventory, adapter, buffer_maxlen,
                   metrics, last_drift, drift_calls>>

\* The forklift is granted; the travel time is d.
ForkliftGrantedWith(d) ==
    /\ OrderFiring("grant", "wait_forklift")
    /\ LET e == Head(queue)
           i == e.proc
       IN /\ now' = e.t
          /\ procs' = [procs EXCEPT ![i].pc = "travel"]
          /\ queue' = Timeout(Tail(queue), e.t, "order", i, d)
    /\ UNCHANGED <<config, phase, pools, workers, forklifts, orders, gens,
                   active_orders, completed_orders, inventory, adapter,
                   event_buffer, buffer_maxlen, recorded, metrics,
                   last_drift, drift_calls>>

\* The forklift is granted: sample the travel time.
ForkliftGranted == \E d \in Delays : ForkliftGrantedWith(d)

\* Travel is over; the pick time is d.
TravelDoneWith(d) ==
    /\ OrderFiring("timeout", "travel")
    /\ LET e == Head(queue)
           i == e.proc
       IN /\ now' = e.t
          /\ procs' = [procs EXCEPT ![i].pc = "pick"]
          /\ queue' = Timeout(Tail(queue), e.t, "order", i, d)
    /\ UNCHANGED <<config, phase, pools, workers, forklifts, orders, gens,
                   active_orders, completed_orders, inventory, adapter,
                   event_buffer, buffer_maxlen, recorded, metrics,
                   last_drift, drift_calls>>

\* Travel is over: sample the pick time.
TravelDone == \E d \in Delays : TravelDoneWith(d)

\* PickLine crediting the whole order to the line
PickLine_Total(o, j) ==
    [o EXCEPT !.lines[j].picked_quantity = total_items(o)]

\* line.picked_quantity = line.quantity
\* A pick that leaves the line as it was
PickLine_Nothing(o, j) == o

PickLine(o, j) ==
    [o EXCEPT !.lines[j].picked_quantity = o.lines[j].quantity]

\* self.inventory[sku].quantity -= quantity
Decrement(inv, sku, quantity) == [inv EXCEPT ![sku] = @ - quantity]

\* The pick is over: the line is picked, the inventory decremented (when
\* the SKU is known), the forklift released, and the loop goes on.
PickDone ==
    /\ OrderFiring("timeout", "pick")
    /\ LET e == Head(queue)
           i == e.proc
           j == procs[i].line
           o == PickLine(orders[i], j)
           line == orders[i].lines[j]
           known == line.sku \in DOMAIN inventory
           rel == Release(pools, Tail(queue), e.t, procs[i].forklift_req, i)
           n == NextLine(o, [procs[i] EXCEPT !.forklift_req = 0],
                         rel.pools, rel.queue, e.t, i, j + 1)
       IN /\ now' = e.t
          /\ IF known
             THEN /\ inventory' = Decrement(inventory, line.sku,
                                            line.quantity)
                  /\ adapter' =
                        IF adapter.kind = "mock"
                        THEN [adapter EXCEPT !.inventory =
                                Decrement(@, line.sku, line.quantity)]
                        ELSE adapter
                  /\ event_buffer' = RecordEvent(event_buffer,
                        "inventory_updated",
                        [NoData EXCEPT !.sku = line.sku,
                                       !.change = 0 - line.quantity])
                  /\ recorded' = recorded + 1
             ELSE UNCHANGED <<inventory, adapter, event_buffer, recorded>>
          /\ orders' = [orders EXCEPT ![i] = n.order]
          /\ procs' = [procs EXCEPT ![i] = n.proc]
          /\ pools' = n.pools
          /\ queue' = n.queue
    /\ UNCHANGED <<config, phase, workers, forklifts, gens, active_orders,
                   completed_orders, buffer_maxlen, metrics, last_drift,
                   drift_calls>>

\* The packing worker is granted; the pack time is d.
PackWorkerGrantedWith(d) ==
    /\ OrderFiring("grant", "wait_pack_worker")
    /\ LET e == Head(queue)
           i == e.proc
       IN /\ now' = e.t
          /\ procs' = [procs EXCEPT ![i].pc = "pack"]
          /\ queue' = Timeout(Tail(queue), e.t, "order", i, d)
    /\ UNCHANGED <<config, phase, pools, workers, forklifts, orders, gens,
                   active_orders, completed_orders, inventory, adapter,
                   event_buffer, buffer_maxlen, recorded, metrics,
                   last_drift, drift_calls>>

\* The packing worker is granted: sample the pack time.
PackWorkerGranted == \E d \in Delays : PackWorkerGrantedWith(d)

\* Packing is over: the worker is released, status PACKED then SHIPPING;
\* the handoff time is d.
PackDoneWith(d) ==
    /\ OrderFiring("timeout", "pack")
    /\ LET e == Head(queue)
           i == e.proc
           rel == Release(pools, Tail(queue), e.t, procs[i].worker_req, i)
           o1 == [SetStatus(orders[i], "packed") EXCEPT !.pack_end_time = e.t]
           o2 == SetStatus(o1, "shipping")
       IN /\ now' = e.t
          /\ orders' = [orders EXCEPT ![i] = o2]
          /\ procs' = [procs EXCEPT ![i].pc = "ship", ![i].worker_req = 0]
          /\ pools' = rel.pools
          /\ queue' = Timeout(rel.queue, e.t, "order", i, d)
    /\ UNCHANGED <<config, phase, workers, forklifts, gens, active_orders,
                   completed_orders, inventory, adapter, event_buffer,
                   buffer_maxlen, recorded, metrics, last_drift,
                   drift_calls>>

\* Packing is over: the worker is released, status PACKED then SHIPPING,
\* and the handoff time is sampled.
PackDone == \E d \in Delays : PackDoneWith(d)

\* The handoff is over: COMPLETED, metrics, the final status event, and the
\* move from the active to the completed orders.
ShipDone ==
    /\ OrderFiring("timeout", "ship")
    /\ LET e == Head(queue)
           i == e.proc
           o == SetStatus(orders[i], "completed")
           total_time == e.t - procs[i].order_start
       IN /\ now' = e.t
          /\ queue' = Tail(queue)
          /\ orders' = [orders EXCEPT ![i] = o]
          /\ procs' = [procs EXCEPT ![i].pc = "done"]
          /\ metrics' = record_order_completion(metrics, o, total_time)
          /\ event_buffer' = RecordEvent(event_buffer,
                "order_status_changed",
                [NoData EXCEPT !.order_id = o.order_id,
                               !.status = "completed"])
          /\ recorded' = recorded + 1
          /\ completed_orders' = Append(completed_orders, i)
          /\ active_orders' = IF o.order_id \in DOMAIN active_orders
                              THEN Del(active_orders, o.order_id)
                              ELSE active_orders
    /\ UNCHANGED <<config, phase, pools, workers, forklifts, gens,
                   inventory, adapter, buffer_maxlen, last_drift,
                   drift_calls>>

----------------------------------------------------------------------------
(* The adapter's connection and calculate_sync_drift.                      *)

Connect ==
    /\ phase = "idle"
    /\ ~adapter.connected
    /\ adapter' = [adapter EXCEPT !.connected = TRUE]
    /\ UNCHANGED <<config, now, queue, phase, pools, workers, forklifts,
                   orders, procs, gens, active_orders, completed_orders,
                   inventory, event_buffer, buffer_maxlen, recorded,
                   metrics, last_drift, drift_calls>>

Disconnect ==
    /\ phase = "idle"
    /\ adapter.connected
    /\ adapter' = [adapter EXCEPT !.connected = FALSE]
    /\ UNCHANGED <<config, now, queue, phase, pools, workers, forklifts,
                   orders, procs, gens, active_orders, completed_orders,
                   inventory, event_buffer, buffer_maxlen, recorded,
                   metrics, last_drift, drift_calls>>

Abs(x) == IF x < 0 THEN 0 - x ELSE x

Max3(a, b, c) ==
    IF a >= b /\ a >= c THEN a ELSE IF b >= c THEN b ELSE c

RECURSIVE SumOver(_, _, _)
\* sum of f(s) over the SKUs s of S; f is a function
SumOver(S, f, acc) ==
    IF S = {} THEN acc
    ELSE LET s == CHOOSE x \in S : TRUE
         IN SumOver(S \ {s}, f, acc + f[s])

\* Drift counting a SKU absent from the ERP inventory as quantity 0
Drift_MissingAsZero(dt, erp) ==
    LET all == DOMAIN dt
        e == [s \in all |-> IF s \in DOMAIN erp THEN erp[s] ELSE 0]
        diff == SumOver(all, [s \in all |-> Abs(e[s] - dt[s])], 0)
        total == SumOver(all, [s \in all |-> Max3(e[s], dt[s], 1)], 0)
    IN IF total > 0 THEN <<diff, total>> ELSE <<0, 1>>

\* The drift of twin inventory dt against ERP inventory erp, as the
\* fraction <<total_diff, total_items>>; <<0, 1>> is 0.0.
Drift(dt, erp) ==
    LET shared == {s \in DOMAIN dt : s \in DOMAIN erp}
        diff == SumOver(shared,
                         [s \in shared |-> Abs(erp[s] - dt[s])], 0)
        total == SumOver(shared,
                         [s \in shared |-> Max3(erp[s], dt[s], 1)], 0)
    IN IF total > 0 THEN <<diff, total>> ELSE <<0, 1>>

\* Exceeds with >= for >
Exceeds_Geq(drift, threshold) ==
    drift[1] * threshold[2] >= threshold[1] * drift[2]

\* drift > threshold, on fractions with positive denominators
Exceeds(drift, threshold) ==
    drift[1] * threshold[2] > threshold[1] * drift[2]

\* NotConnectedDrift as 0.0
NotConnectedDrift_Zero == <<0, 1>>

\* return 1.0
NotConnectedDrift == <<1, 1>>

\* calculate_sync_drift(): 1.0 from a disconnected adapter, else the drift
\* against the fetched inventory, with a CALIBRATION_TRIGGER event when it
\* exceeds the threshold.
CalculateSyncDrift ==
    /\ phase = "idle"
    /\ drift_calls < MaxDriftCalls
    /\ drift_calls' = drift_calls + 1
    /\ IF ~adapter.connected
       THEN /\ last_drift' = NotConnectedDrift
            /\ UNCHANGED <<event_buffer, recorded>>
       ELSE LET drift == Drift(inventory, adapter.inventory)
            IN /\ last_drift' = drift
               /\ IF Exceeds(drift, config.sync_threshold)
                  THEN /\ event_buffer' = RecordEvent(event_buffer,
                              "calibration_trigger",
                              [NoData EXCEPT
                                 !.drift = drift,
                                 !.threshold = config.sync_threshold])
                       /\ recorded' = recorded + 1
                  ELSE UNCHANGED <<event_buffer, recorded>>
    /\ UNCHANGED <<config, now, queue, phase, pools, workers, forklifts,
                   orders, procs, gens, active_orders, completed_orders,
                   inventory, adapter, buffer_maxlen, metrics>>

----------------------------------------------------------------------------

\* One step of env.run, the generator's turn apart.
Step ==
    \/ StopSimulation /\ UNCHANGED others
    \/ ReleaseFired /\ UNCHANGED others
    \/ GenStart /\ UNCHANGED others
    \/ OrderStart /\ UNCHANGED others
    \/ WorkerGranted /\ UNCHANGED others
    \/ ForkliftGranted /\ UNCHANGED others
    \/ TravelDone /\ UNCHANGED others
    \/ PickDone /\ UNCHANGED others
    \/ PackWorkerGranted /\ UNCHANGED others
    \/ PackDone /\ UNCHANGED others
    \/ ShipDone /\ UNCHANGED others

Next ==
    \/ (\E duration \in RunDurations : RunSimulation(MaxRuns, duration))
          /\ UNCHANGED others
    \/ GenArrive(MaxOrders, PoolMaxQty, PoolMaxPriority) /\ UNCHANGED others
    \/ Step

Spec == Init /\ [][Next]_vars

\* SpecFair: the same run with the scheduler's progress: env.run keeps
\* taking the next event from the queue until the until event fires.
SpecFair == Init /\ [][Next]_vars /\ WF_vars(Next)

NextPick ==
    \/ (\E duration \in RunDurations : RunSimulation(MaxRuns, duration))
          /\ UNCHANGED others
    \/ GenArrive(PickMaxOrders, MaxLineQty, PoolMaxPriority) /\ UNCHANGED others
    \/ Step
    \/ CalculateSyncDrift /\ UNCHANGED others

SpecPick == InitPick /\ [][NextPick]_vars

\* SpecArrive: one worker and one forklift, any initial quantities from 0,
\* and the generator's full ranges of line quantity and priority.
InitArrive ==
    \E inv \in [SKUs -> 0..MaxInitQty] :
        Constructed(Config(1, 1, <<1, 20>>), Adapter("mock", TRUE, inv))

NextArrive ==
    \/ (\E duration \in RunDurations : RunSimulation(MaxRuns, duration))
          /\ UNCHANGED others
    \/ GenArrive(ArriveMaxOrders, MaxLineQty, MaxPriority)
          /\ UNCHANGED others
    \/ Step

SpecArrive == InitArrive /\ [][NextArrive]_vars

\* SpecLong: one run, long enough for LongMaxOrders orders of up to NumSkus
\* lines to go through one worker one after the other.
NextLong ==
    \/ RunSimulation(MaxRuns, LongTime) /\ UNCHANGED others
    \/ GenArrive(LongMaxOrders, PoolMaxQty, PoolMaxPriority)
          /\ UNCHANGED others
    \/ Step

SpecLong == Init /\ [][NextLong]_vars

\* SpecDrift: calculate_sync_drift on the inventories a twin and its
\* adapter can hold some time after construction.  Quantities run from
\* -MaxDeficit (picks and ERP updates take any on-hand quantity below zero)
\* to MaxInitQty.  A mock adapter shares its items with a twin synced from
\* it, and a twin built while it was disconnected has no inventory; the
\* inventory behind another adapter changes independently of the twin's.
Inventories ==
    UNION {[S -> (0 - MaxDeficit)..MaxInitQty] : S \in SUBSET SKUs}

Thresholds == {<<0, 1>>, <<1, 20>>, <<1, 2>>, <<1, 1>>}

InitDrift ==
    \E connected \in BOOLEAN, th \in Thresholds, erp \in Inventories :
        \/ \E dt \in {erp, EmptyMap} :
              TwinState(Config(1, 1, th),
                        Adapter("mock", connected, erp), dt)
        \/ \E dt \in Inventories :
              TwinState(Config(1, 1, th),
                        Adapter("port", connected, erp), dt)

NextDrift ==
    \/ Connect /\ UNCHANGED others
    \/ Disconnect /\ UNCHANGED others
    \/ CalculateSyncDrift /\ UNCHANGED others

SpecDrift == InitDrift /\ [][NextDrift]_vars

----------------------------------------------------------------------------
(* The random module.  Every draw reads the module's state and advances    *)
(* it; random.seed puts it in a state that depends on the seed only.  The  *)
(* k-th value drawn after a seed is therefore the same in every run.       *)

\* the state after one draw
Advance(r) == (r + 7) % (MaxRngState + 1)

RECURSIVE AdvanceBy(_, _)
\* the state after k draws
AdvanceBy(r, k) == IF k = 0 THEN r ELSE AdvanceBy(Advance(r), k - 1)

\* random.randint(lo, hi) (and the sampled times) drawn in state r
RandInt(r, lo, hi) == lo + (r % (hi - lo + 1))

\* MockData with one storage location too many
MockData_OneExtra(r, n) ==
    [s \in 1..(n + 1) |-> RandInt(AdvanceBy(r, 2 * (s - 1)), 1, MaxInitQty)]

\* MockERPAdapter._initialize_mock_data with the module in state r: per
\* storage location, a quantity (randint) and a unit cost (uniform).
MockData(r, n) ==
    [s \in 1..n |-> RandInt(AdvanceBy(r, 2 * (s - 1)), 1, MaxInitQty)]

RECURSIVE SampleAt(_, _, _)
\* random.sample(S, k) drawn from state r: k draws
SampleAt(S, k, r) ==
    IF k = 0 THEN <<>>
    ELSE LET n == RandInt(r, 1, Cardinality(S))
             x == CHOOSE e \in S : Cardinality({y \in S : y < e}) = n - 1
         IN <<x>> \o SampleAt(S \ {x}, k - 1, Advance(r))

\* what run_simulation returns
RunResults(duration) ==
    [duration |-> duration,
     orders_completed |-> Len(completed_orders),
     orders_in_progress |-> Cardinality(DOMAIN active_orders),
     events_recorded |-> Len(event_buffer),
     metrics |-> get_summary(metrics)]

\* a step that draws: the module's state moves to r
Drawn(r) ==
    /\ rng' = r
    /\ UNCHANGED <<scenario, results, subscribers, ret, calib, orders_queue,
                   base_config>>

GenStartSeeded ==
    /\ GenStartWith(RandInt(rng, 1, MaxDelay))
    /\ Drawn(Advance(rng))

\* order_generator's turn: num_items, then (when a SKU is in stock) the
\* sample, one quantity per line, the customer and the priority, then the
\* next inter-arrival time.
GenArriveSeeded(maxOrders, maxQty) ==
    LET num_items == RandInt(rng, 1, NumSkus)
        r1 == Advance(rng)
        k == Min(num_items, Cardinality(Available))
        selected == SampleAt(Available, k, r1)
        r2 == AdvanceBy(r1, k)
        qty == [i \in 1..k |-> RandInt(AdvanceBy(r2, i - 1), 1, maxQty)]
        r3 == IF Available = {} THEN r1 ELSE AdvanceBy(r2, k + 2)
    IN /\ GenArriveWith(maxOrders, selected, qty,
                        RandInt(r3, 1, MaxDelay),
                        RandInt(AdvanceBy(r2, k + 1), 1, MaxPriority))
       /\ Drawn(Advance(r3))

ForkliftGrantedSeeded ==
    /\ ForkliftGrantedWith(RandInt(rng, 1, MaxDelay))
    /\ Drawn(Advance(rng))

TravelDoneSeeded ==
    /\ TravelDoneWith(RandInt(rng, 1, MaxDelay))
    /\ Drawn(Advance(rng))

PackWorkerGrantedSeeded ==
    /\ PackWorkerGrantedWith(RandInt(rng, 1, MaxDelay))
    /\ Drawn(Advance(rng))

PackDoneSeeded ==
    /\ PackDoneWith(RandInt(rng, 1, MaxDelay))
    /\ Drawn(Advance(rng))

\* env.run returns and run_simulation compiles its results
StopAndReturn ==
    /\ StopSimulation
    /\ results' = Append(results, RunResults(Head(queue).t))
    /\ UNCHANGED <<rng, scenario, subscribers, ret, calib, orders_queue,
                   base_config>>

\* In the same process: MockERPAdapter(config), connect(), and
\* WarehouseDigitalTwin(config, adapter), for the configuration of the
\* twin before.  The adapter draws its inventory, then the twin seeds the
\* random module.
NewTwin ==
    /\ phase = "idle"
    /\ Len(results) = 1
    /\ gens # <<>>
    /\ adapter' = Adapter("mock", TRUE,
                          MockData(rng, config.num_storage_locations))
    /\ inventory' = adapter'.inventory
    /\ rng' = Seed(config.random_seed)
    /\ now' = 0
    /\ queue' = <<>>
    /\ pools' = InitializeResources(<<>>, config)
    /\ workers' = 1
    /\ forklifts' = 2
    /\ orders' = <<>>
    /\ procs' = <<>>
    /\ gens' = <<>>
    /\ active_orders' = EmptyMap
    /\ completed_orders' = <<>>
    /\ event_buffer' = <<>>
    /\ recorded' = 0
    /\ metrics' = NewMetrics
    /\ last_drift' = <<0, 1>>
    /\ drift_calls' = 0
    /\ UNCHANGED <<config, phase, buffer_maxlen, scenario, results,
                   subscribers, ret, calib, orders_queue, base_config>>

\* SpecSeed: a process starts with the random module in any state, builds
\* a mock adapter and a twin with the default seed, runs it, then builds and
\* runs a second adapter and twin from the same configuration.
InitSeed ==
    \E r \in 0..MaxRngState :
        Constructed(Config(1, 1, <<1, 20>>),
                    Adapter("mock", TRUE, MockData(r, NumSkus)))

NextSeed ==
    \/ RunSimulation(1, SeedTime) /\ UNCHANGED others
    \/ GenStartSeeded
    \/ GenArriveSeeded(SeedTime, MaxLineQty)
    \/ ForkliftGrantedSeeded
    \/ TravelDoneSeeded
    \/ PackWorkerGrantedSeeded
    \/ PackDoneSeeded
    \/ ReleaseFired /\ UNCHANGED others
    \/ OrderStart /\ UNCHANGED others
    \/ WorkerGranted /\ UNCHANGED others
    \/ PickDone /\ UNCHANGED others
    \/ ShipDone /\ UNCHANGED others
    \/ StopAndReturn
    \/ NewTwin

SpecSeed == InitSeed /\ [][NextSeed]_vars

----------------------------------------------------------------------------
(* SpecAdapter: the mock adapter called directly, with subscribers.  Each  *)
(* subscriber is modelled by the sequence of events its callback received. *)

AdapterSkus == 1..(NumSkus + 1)
AdapterOrderIds == 1..(MaxAdapterOrders + 1)
AdapterStatuses == {"picked", "completed"}

\* EmitEvent that walks the callbacks from the last subscribed to the first
EmitEvent_Reversed(subs, counter, event_type, data) ==
    [i \in 1..Len(subs) |->
        Append(subs[i], [event_id |-> counter + 1,
                         event_type |-> event_type,
                         data |-> data,
                         source |-> "erp",
                         call_no |-> Len(subs) - i + 1])]

\* _emit_event: the event built from the counter's new value, handed once
\* to every callback in subscription order.  call_no is the position of the
\* callback's call in the loop (not a field of the code's event).
EmitEvent(subs, counter, event_type, data) ==
    [i \in 1..Len(subs) |->
        Append(subs[i], [event_id |-> counter + 1,
                         event_type |-> event_type,
                         data |-> data,
                         source |-> "erp",
                         call_no |-> i])]

\* subscribe_to_events(callback)
Subscribe ==
    /\ Len(subscribers) < MaxSubscribers
    /\ subscribers' = Append(subscribers, <<>>)
    /\ ret' = [call |-> "subscribe_to_events", value |-> TRUE]
    /\ UNCHANGED <<config, adapter, now, queue, phase, pools, workers,
                   forklifts, orders, procs, gens, active_orders,
                   completed_orders, inventory, event_buffer, buffer_maxlen,
                   recorded, metrics, last_drift, drift_calls, rng,
                   scenario, results, calib, orders_queue, base_config>>

\* create_order(customer_id, [(sku, qty)]): a line per item whose SKU is in
\* the inventory, priority from random.randint(1, 5); returns the order.
CreateOrder(sku, qty) ==
    /\ Len(adapter.orders) < MaxAdapterOrders
    /\ adapter.event_counter < MaxAdapterCalls
    /\ LET order_id == Len(adapter.orders) + 1
           lines == IF sku \in DOMAIN adapter.inventory
                    THEN <<[sku |-> sku, quantity |-> qty]>> ELSE <<>>
           order == [order_id |-> order_id, lines |-> lines,
                     priority |-> RandInt(rng, 1, 5), status |-> "received"]
       IN /\ adapter' = [adapter EXCEPT
                            !.orders = Append(@, order),
                            !.event_counter = @ + 1]
          /\ subscribers' = EmitEvent(subscribers, adapter.event_counter,
                                      "order_created",
                                      [order_id |-> order_id])
          /\ ret' = [call |-> "create_order", value |-> order_id]
    /\ rng' = Advance(rng)
    /\ UNCHANGED <<config, now, queue, phase, pools, workers,
                   forklifts, orders, procs, gens, active_orders,
                   completed_orders, inventory, event_buffer, buffer_maxlen,
                   recorded, metrics, last_drift, drift_calls,
                   scenario, results, calib, orders_queue, base_config>>

\* update_inventory that emits its event for a SKU it does not know
UpdateInventory_EmitsUnknown(sku, quantity_change) ==
    /\ adapter.event_counter < MaxAdapterCalls
    /\ IF sku \in DOMAIN adapter.inventory
       THEN LET new_quantity == adapter.inventory[sku] + quantity_change
            IN /\ adapter' = [adapter EXCEPT
                                 !.inventory[sku] = new_quantity,
                                 !.event_counter = @ + 1]
               /\ subscribers' =
                     EmitEvent(subscribers, adapter.event_counter,
                               "inventory_updated",
                               [sku |-> sku,
                                quantity_change |-> quantity_change,
                                new_quantity |-> new_quantity])
               /\ inventory' =
                     IF adapter.kind = "mock" /\ sku \in DOMAIN inventory
                     THEN [inventory EXCEPT ![sku] = @ + quantity_change]
                     ELSE inventory
               /\ ret' = [call |-> "update_inventory",
                          args |-> <<sku, quantity_change>>,
                          value |-> TRUE]
       ELSE /\ adapter' = [adapter EXCEPT !.event_counter = @ + 1]
            /\ subscribers' =
                  EmitEvent(subscribers, adapter.event_counter,
                            "inventory_updated",
                            [sku |-> sku,
                             quantity_change |-> quantity_change,
                             new_quantity |-> 0])
            /\ ret' = [call |-> "update_inventory",
                       args |-> <<sku, quantity_change>>,
                       value |-> FALSE]
            /\ UNCHANGED inventory
    /\ UNCHANGED <<config, now, queue, phase, pools, workers,
                   forklifts, orders, procs, gens, active_orders,
                   completed_orders, event_buffer, buffer_maxlen,
                   recorded, metrics, last_drift, drift_calls, rng,
                   scenario, results, calib, orders_queue, base_config>>

\* update_inventory(sku, quantity_change)
\* The twin that was synced from the mock adapter holds the adapter's
\* InventoryItem objects (fetch_inventory copies the dictionary only), so
\* the new quantity is the twin's too.
UpdateInventory(sku, quantity_change) ==
    /\ adapter.event_counter < MaxAdapterCalls
    /\ IF sku \in DOMAIN adapter.inventory
       THEN LET new_quantity == adapter.inventory[sku] + quantity_change
            IN /\ adapter' = [adapter EXCEPT
                                 !.inventory[sku] = new_quantity,
                                 !.event_counter = @ + 1]
               /\ subscribers' =
                     EmitEvent(subscribers, adapter.event_counter,
                               "inventory_updated",
                               [sku |-> sku,
                                quantity_change |-> quantity_change,
                                new_quantity |-> new_quantity])
               /\ inventory' =
                     IF adapter.kind = "mock" /\ sku \in DOMAIN inventory
                     THEN [inventory EXCEPT ![sku] = @ + quantity_change]
                     ELSE inventory
               /\ ret' = [call |-> "update_inventory",
                          args |-> <<sku, quantity_change>>,
                          value |-> TRUE]
       ELSE /\ ret' = [call |-> "update_inventory",
                       args |-> <<sku, quantity_change>>,
                       value |-> FALSE]
            /\ UNCHANGED <<adapter, subscribers, inventory>>
    /\ UNCHANGED <<config, now, queue, phase, pools, workers,
                   forklifts, orders, procs, gens, active_orders,
                   completed_orders, event_buffer, buffer_maxlen,
                   recorded, metrics, last_drift, drift_calls, rng,
                   scenario, results, calib, orders_queue, base_config>>

\* update_order_status(order_id, status)
UpdateOrderStatus(order_id, status) ==
    /\ adapter.event_counter < MaxAdapterCalls
    /\ IF order_id \in DOMAIN adapter.orders
       THEN /\ adapter' = [adapter EXCEPT
                              !.orders[order_id].status = status,
                              !.event_counter = @ + 1]
            /\ subscribers' =
                  EmitEvent(subscribers, adapter.event_counter,
                            "order_status_changed",
                            [order_id |-> order_id, new_status |-> status])
            /\ ret' = [call |-> "update_order_status",
                       args |-> <<order_id, status>>,
                       value |-> TRUE]
       ELSE /\ ret' = [call |-> "update_order_status",
                       args |-> <<order_id, status>>,
                       value |-> FALSE]
            /\ UNCHANGED <<adapter, subscribers>>
    /\ UNCHANGED <<config, now, queue, phase, pools, workers,
                   forklifts, orders, procs, gens, active_orders,
                   completed_orders, inventory, event_buffer, buffer_maxlen,
                   recorded, metrics, last_drift, drift_calls, rng,
                   scenario, results, calib, orders_queue, base_config>>

InitAdapter ==
    \E r \in 0..MaxRngState :
        Constructed(Config(1, 1, <<1, 20>>),
                    Adapter("mock", TRUE, MockData(r, NumSkus)))

NextAdapter ==
    \/ Subscribe
    \/ \E sku \in AdapterSkus : CreateOrder(sku, 1)
    \/ \E sku \in AdapterSkus, change \in (-MaxChange)..MaxChange :
          UpdateInventory(sku, change)
    \/ \E id \in AdapterOrderIds, status \in AdapterStatuses :
          UpdateOrderStatus(id, status)

SpecAdapter == InitAdapter /\ [][NextAdapter]_vars

----------------------------------------------------------------------------
(* SpecWhatIf: run_what_if_scenario, on a new twin or after a baseline     *)
(* run.  scenario keeps what the call saved and where it started.          *)

\* scenario_params of the calls: more workers; a shorter run with more
\* forklifts; a key that is no attribute of the configuration; no forklift.
ScenarioParams ==
    <<[num_workers |-> MaxCapacity],
      [simulation_time |-> MaxTime \div 2, num_forklifts |-> MaxCapacity],
      [no_such_parameter |-> 1],
      [num_forklifts |-> 0]>>

\* to_dict without the num_workers key
to_dict_NoWorkers(cfg) ==
    [k \in DOMAIN cfg \ {"num_workers"} |-> cfg[k]]

\* SimulationConfig.to_dict: every field under its name
to_dict(cfg) == [k \in DOMAIN cfg |-> cfg[k]]

\* SimulationConfig(): the dataclass defaults of the modelled fields
DefaultConfig ==
    [Config(5, 2, <<1, 20>>) EXCEPT !.simulation_time = 480,
                                    !.num_storage_locations = 100,
                                    !.event_buffer_size = 1000]

\* SimulationConfig.from_dict: the keys that are fields, defaults for the
\* rest.
from_dict(data) ==
    [k \in DOMAIN DefaultConfig |->
        IF k \in DOMAIN data THEN data[k] ELSE DefaultConfig[k]]

\* ApplyOverrides that sets nothing
ApplyOverrides_Nothing(cfg, params) == cfg

\* for key, value in scenario_params.items():
\*     if hasattr(self.config, key): setattr(self.config, key, value)
ApplyOverrides(cfg, params) ==
    [k \in DOMAIN cfg |-> IF k \in DOMAIN params THEN params[k] ELSE cfg[k]]

\* run_what_if_scenario up to the point where env.run starts waiting: the
\* configuration saved and overridden, the resources, metrics and order
\* collections replaced, then run_simulation() on the same environment.
\* env.run(until) raises ValueError when until <= env.now, and
\* _initialize_resources raises on a capacity of 0; the call then ends
\* there, with the configuration overridden.
WhatIfBegin(params) ==
    /\ phase = "idle"
    /\ scenario.outcome = "none"
    /\ ~scenario.active
    /\ LET original_config == to_dict(config)
           cfg == ApplyOverrides(config, params)
           call == [active |-> FALSE, outcome |-> "raised",
                    original_config |-> original_config, start |-> now,
                    simulation_time |-> cfg.simulation_time,
                    gen |-> Len(gens) + 1]
       IN /\ config' = cfg
          /\ base_config' = IF base_config.is_self_config
                            THEN [base_config EXCEPT !.fields = cfg]
                            ELSE base_config
          /\ IF ResourcesRaise(cfg)
             THEN /\ scenario' = call
                  /\ pools' = IF ValidCapacity(cfg.num_workers)
                              THEN Append(pools, NewResource(cfg.num_workers))
                              ELSE pools
                  /\ workers' = IF ValidCapacity(cfg.num_workers)
                                THEN Len(pools) + 1 ELSE workers
                  /\ UNCHANGED <<forklifts, metrics, completed_orders,
                                 active_orders, gens, queue, phase>>
             ELSE /\ pools' = InitializeResources(pools, cfg)
                  /\ workers' = Len(pools) + 1
                  /\ forklifts' = Len(pools) + 2
                  /\ metrics' = NewMetrics
                  /\ completed_orders' = <<>>
                  /\ active_orders' = EmptyMap
                  /\ gens' = Append(gens, [order_count |-> 0])
                  /\ LET q1 == Process(queue, now, "gen", Len(gens) + 1)
                     IN IF cfg.simulation_time <= now
                        THEN /\ queue' = q1
                             /\ phase' = "idle"
                             /\ scenario' = call
                        ELSE /\ queue' = Schedule(q1,
                                   Ev(cfg.simulation_time, URGENT, "until",
                                      "env", 0, 0))
                             /\ phase' = "running"
                             /\ scenario' = [call EXCEPT
                                                !.active = TRUE,
                                                !.outcome = "running"]
    /\ UNCHANGED <<now, orders, procs, inventory, adapter, event_buffer,
                   buffer_maxlen, recorded, last_drift, drift_calls, rng,
                   results, subscribers, ret, calib, orders_queue>>

\* The scenario's env.run returns: run_simulation compiles its results,
\* then the configuration is rebuilt from the saved dictionary and the
\* resources are built again from it.
WhatIfReturn ==
    /\ Firing("until", "env")
    /\ scenario.active
    /\ now' = Head(queue).t
    /\ queue' = Tail(queue)
    /\ phase' = "idle"
    /\ results' = Append(results, RunResults(config.simulation_time))
    /\ config' = from_dict(scenario.original_config)
    /\ base_config' = [base_config EXCEPT !.is_self_config = FALSE]
    /\ pools' = InitializeResources(pools, config')
    /\ workers' = Len(pools) + 1
    /\ forklifts' = Len(pools) + 2
    /\ scenario' = [scenario EXCEPT !.active = FALSE,
                                    !.outcome = "returned"]
    /\ UNCHANGED <<orders, procs, gens, active_orders, completed_orders,
                   inventory, adapter, event_buffer, buffer_maxlen,
                   recorded, metrics, last_drift, drift_calls, rng,
                   subscribers, ret, calib, orders_queue>>

\* A run_simulation call that is not part of a scenario returns.
BaselineReturn ==
    /\ ~scenario.active
    /\ StopAndReturn

InitWhatIf ==
    Constructed(Config(1, 1, <<1, 20>>),
                Adapter("mock", TRUE, [s \in SKUs |-> MaxInitQty]))

NextWhatIf ==
    \/ (\E duration \in RunDurations : RunSimulation(MaxRuns, duration))
          /\ UNCHANGED others
    \/ \E k \in 1..Len(ScenarioParams) : WhatIfBegin(ScenarioParams[k])
    \/ WhatIfReturn
    \/ BaselineReturn
    \/ GenArrive(WhatIfMaxOrders, PoolMaxQty, PoolMaxPriority)
          /\ UNCHANGED others
    \/ ReleaseFired /\ UNCHANGED others
    \/ GenStart /\ UNCHANGED others
    \/ OrderStart /\ UNCHANGED others
    \/ WorkerGranted /\ UNCHANGED others
    \/ ForkliftGranted /\ UNCHANGED others
    \/ TravelDone /\ UNCHANGED others
    \/ PickDone /\ UNCHANGED others
    \/ PackWorkerGranted /\ UNCHANGED others
    \/ PackDone /\ UNCHANGED others
    \/ ShipDone /\ UNCHANGED others

SpecWhatIf == InitWhatIf /\ [][NextWhatIf]_vars

\* SpecRerun: a baseline run_simulation, then one run_what_if_scenario with
\* more workers on the same twin, long enough for the scenario's own
\* order_generator to create an order while an order of the baseline run is
\* still in process.
NextRerun ==
    \/ RunSimulation(MaxRuns, MaxTime \div 2) /\ UNCHANGED others
    \/ phase = "idle" /\ gens # <<>> /\ WhatIfBegin(ScenarioParams[1])
    \/ WhatIfReturn
    \/ BaselineReturn
    \/ GenArrive(RerunMaxOrders, PoolMaxQty, PoolMaxPriority)
          /\ UNCHANGED others
    \/ ReleaseFired /\ UNCHANGED others
    \/ GenStart /\ UNCHANGED others
    \/ OrderStart /\ UNCHANGED others
    \/ WorkerGranted /\ UNCHANGED others
    \/ ForkliftGranted /\ UNCHANGED others
    \/ TravelDone /\ UNCHANGED others
    \/ PickDone /\ UNCHANGED others
    \/ PackWorkerGranted /\ UNCHANGED others
    \/ PackDone /\ UNCHANGED others
    \/ ShipDone /\ UNCHANGED others

SpecRerun == InitWhatIf /\ [][NextRerun]_vars

\* SpecPending: the twin is built from a mock adapter on which create_order
\* was called MaxAdapterOrders times, and update_order_status("picked") for
\* some of the orders; then the calls of SpecWhatIf.
InitPending ==
    \E status \in [1..MaxAdapterOrders -> {"received", "picked"}] :
        Constructed(Config(1, 1, <<1, 20>>),
                    [Adapter("mock", TRUE, [s \in SKUs |-> MaxInitQty])
                       EXCEPT
                         !.orders =
                            [k \in 1..MaxAdapterOrders |->
                                [order_id |-> k,
                                 lines |-> <<[sku |-> 1, quantity |-> 1]>>,
                                 priority |-> 1, status |-> status[k]]],
                         !.event_counter =
                            MaxAdapterOrders
                               + Cardinality({k \in 1..MaxAdapterOrders :
                                                 status[k] # "received"})])

SpecPending == InitPending /\ [][NextWhatIf]_vars

----------------------------------------------------------------------------
(* Calibration from ERP event logs.  A log is a sequence of events with    *)
(* timestamps in whole minutes; calib.events is the log gathered so far,   *)
(* the argument of the calibrate_from_erp_logs call.                       *)

\* WarehouseEvent of an ERP log: kind "created" is an ORDER_CREATED event,
\* the other kinds are ORDER_STATUS_CHANGED events with that new_status.
LogEntry(kind, order_id, timestamp) ==
    [event_type |-> IF kind = "created" THEN "order_created"
                    ELSE "order_status_changed",
     order_id |-> order_id,
     new_status |-> IF kind = "created" THEN "" ELSE kind,
     timestamp |-> timestamp]

LogKinds == {"created", "picked", "packed", "completed"}
CalibOrders == 1..NumCalibOrders

\* (event.timestamp - earlier).total_seconds() / 60
Minutes(timestamp, earlier) == timestamp - earlier

NoTimes ==
    [pick_times |-> <<>>, pack_times |-> <<>>, order_times |-> <<>>,
     order_starts |-> EmptyMap, order_picks |-> EmptyMap,
     order_packs |-> EmptyMap]

\* calibrate_from_erp_logs, the body of the loop for one event
ScanEvent(acc, event) ==
    LET id == event.order_id
        ts == event.timestamp
    IN IF event.event_type = "order_created"
       THEN [acc EXCEPT !.order_starts = Put(@, id, ts)]
       ELSE IF event.event_type # "order_status_changed" THEN acc
       ELSE IF event.new_status = "picked"
       THEN IF id \in DOMAIN acc.order_starts
            THEN [acc EXCEPT
                    !.pick_times =
                        Append(@, Minutes(ts, acc.order_starts[id])),
                    !.order_picks = Put(@, id, ts)]
            ELSE acc
       ELSE IF event.new_status = "packed"
       THEN IF id \in DOMAIN acc.order_picks
            THEN [acc EXCEPT
                    !.pack_times =
                        Append(@, Minutes(ts, acc.order_picks[id])),
                    !.order_packs = Put(@, id, ts)]
            ELSE acc
       ELSE IF event.new_status = "completed"
       THEN IF id \in DOMAIN acc.order_starts
            THEN [acc EXCEPT
                    !.order_times =
                        Append(@, Minutes(ts, acc.order_starts[id]))]
            ELSE acc
       ELSE acc

\* calibrate_from_erp_logs, the loop over the events in list order
RECURSIVE Scan(_, _)
Scan(events, acc) ==
    IF events = <<>> THEN acc
    ELSE Scan(Tail(events), ScanEvent(acc, Head(events)))

\* Mean that does not divide by the number of samples
Mean_Sum(xs) == <<SumSeq(xs), 1>>

\* statistics.mean of a non-empty list, as a fraction
Mean(xs) == <<SumSeq(xs), Len(xs)>>

\* statistics.stdev(xs) if len(xs) > 1 else 0.5, as its square
StdOrFallback(xs) == IF Len(xs) > 1 THEN StdevSquared(xs) ELSE <<1, 4>>

\* The calibrated dictionary: the pick keys when there is a pick sample,
\* the pack keys when there is a pack sample.
Calibrated(pick_times, pack_times) ==
    LET keys == (IF pick_times # <<>>
                 THEN {"pick_time_mean", "pick_time_std"} ELSE {})
                \cup (IF pack_times # <<>>
                      THEN {"pack_time_mean", "pack_time_std"} ELSE {})
    IN [k \in keys |->
          IF k = "pick_time_mean" THEN Mean(pick_times)
          ELSE IF k = "pick_time_std" THEN StdOrFallback(pick_times)
          ELSE IF k = "pack_time_mean" THEN Mean(pack_times)
          ELSE StdOrFallback(pack_times)]

\* calibrate_from_erp_logs(erp_events): scan, compute, append to
\* calibration_data, set the calibrated keys on the configuration, return.
Calibrate ==
    /\ phase = "idle"
    /\ ~calib.called
    /\ LET acc == Scan(calib.events, NoTimes)
           calibrated == Calibrated(acc.pick_times, acc.pack_times)
       IN /\ calib' = [called |-> TRUE, events |-> calib.events,
                       pick_times |-> acc.pick_times,
                       pack_times |-> acc.pack_times,
                       calibrated |-> calibrated,
                       calibration_data |->
                           Append(calib.calibration_data,
                                  [num_events |-> Len(calib.events),
                                   calibrated_params |-> calibrated])]
          /\ config' = ApplyOverrides(config, calibrated)
          /\ base_config' = IF base_config.is_self_config
                            THEN [base_config EXCEPT !.fields = config']
                            ELSE base_config
    /\ UNCHANGED <<adapter, now, queue, phase, pools, workers, forklifts,
                   orders, procs, gens, active_orders, completed_orders,
                   inventory, event_buffer, buffer_maxlen, recorded,
                   metrics, last_drift, drift_calls, rng, scenario,
                   results, subscribers, ret, orders_queue>>

\* One more event in the log that will be handed to the calibration
LogAppend(event) ==
    /\ ~calib.called
    /\ calib' = [calib EXCEPT !.events = Append(@, event)]
    /\ UNCHANGED <<config, adapter, now, queue, phase, pools, workers,
                   forklifts, orders, procs, gens, active_orders,
                   completed_orders, inventory, event_buffer, buffer_maxlen,
                   recorded, metrics, last_drift, drift_calls, rng,
                   scenario, results, subscribers, ret, orders_queue,
                   base_config>>

\* SpecCalib: short logs of any events, in any order.
LogEvent(kind, order_id, timestamp) ==
    /\ Len(calib.events) < MaxEvents
    /\ LogAppend(LogEntry(kind, order_id, timestamp))

InitCalib ==
    Constructed(Config(1, 1, <<1, 20>>),
                Adapter("mock", TRUE, [s \in SKUs |-> MaxInitQty]))

NextCalib ==
    \/ \E kind \in LogKinds, id \in CalibOrders, ts \in 0..MaxStamp :
          LogEvent(kind, id, ts)
    \/ Calibrate

SpecCalib == InitCalib /\ [][NextCalib]_vars

\* SpecCalibLog: logs as the ERP writes them.  Each order is created at
\* some minute, picked PickGap minutes later and packed PackGap minutes
\* after that; the events of different orders interleave freely.
EventsOf(events, order_id) ==
    SelectSeq(events, LAMBDA e : e.order_id = order_id)

LogLifecycle(order_id, created_at) ==
    LET mine == EventsOf(calib.events, order_id)
    IN /\ Len(mine) < 3
       /\ LogAppend(
             IF mine = <<>> THEN LogEntry("created", order_id, created_at)
             ELSE IF Len(mine) = 1
             THEN LogEntry("picked", order_id, mine[1].timestamp + PickGap)
             ELSE LogEntry("packed", order_id, mine[2].timestamp + PackGap))

NextCalibLog ==
    \/ \E id \in CalibOrders, t \in 0..MaxStamp : LogLifecycle(id, t)
    \/ Calibrate

SpecCalibLog == InitCalib /\ [][NextCalibLog]_vars

\* SpecCalibHistory: calibrate_from_erp_logs called again, with a new log,
\* on the twin that an earlier call calibrated.
NextLog ==
    /\ calib.called
    /\ Len(calib.calibration_data) < MaxCalibrations
    /\ calib' = [calib EXCEPT !.called = FALSE, !.events = <<>>]
    /\ UNCHANGED <<config, adapter, now, queue, phase, pools, workers,
                   forklifts, orders, procs, gens, active_orders,
                   completed_orders, inventory, event_buffer, buffer_maxlen,
                   recorded, metrics, last_drift, drift_calls, rng,
                   scenario, results, subscribers, ret, orders_queue,
                   base_config>>

NextCalibHistory ==
    \/ \E id \in CalibOrders, t \in 0..MaxStamp : LogLifecycle(id, t)
    \/ Calibrate
    \/ NextLog

SpecCalibHistory == InitCalib /\ [][NextCalibHistory]_vars

----------------------------------------------------------------------------
(* SpecMetrics: DigitalTwinMetrics called directly, with orders whose      *)
(* phase timestamps are absent, 0 or later, and total times from 0.        *)

\* The orders handed to record_order_completion
CompletedOrders ==
    {[Order(1, <<OrderLine(1, qty)>>) EXCEPT
         !.status = "completed",
         !.pick_start_time = ps, !.pick_end_time = pe,
         !.pack_start_time = ks, !.pack_end_time = ke] :
       qty \in 1..2, ps \in {None, 0, 1}, pe \in {None, 2},
       ks \in {0, 2}, ke \in {None, 3}}

\* metrics.record_order_completion(order, total_time)
RecordOrderCompletion(order, total_time) ==
    /\ metrics.orders_completed < MaxCompletions
    /\ metrics' = record_order_completion(metrics, order, total_time)
    /\ ret' = [call |-> "record_order_completion", order |-> order,
               total_time |-> total_time]
    /\ UNCHANGED <<config, adapter, now, queue, phase, pools, workers,
                   forklifts, orders, procs, gens, active_orders,
                   completed_orders, inventory, event_buffer, buffer_maxlen,
                   recorded, last_drift, drift_calls, rng, scenario,
                   results, subscribers, calib, orders_queue, base_config>>

\* metrics.get_summary()
GetSummary ==
    /\ ret' = [call |-> "get_summary", value |-> get_summary(metrics)]
    /\ UNCHANGED <<config, adapter, now, queue, phase, pools, workers,
                   forklifts, orders, procs, gens, active_orders,
                   completed_orders, inventory, event_buffer, buffer_maxlen,
                   recorded, metrics, last_drift, drift_calls, rng,
                   scenario, results, subscribers, calib, orders_queue,
                   base_config>>

InitMetrics ==
    Constructed(Config(1, 1, <<1, 20>>),
                Adapter("mock", TRUE, [s \in SKUs |-> MaxInitQty]))

NextMetrics ==
    \/ \E order \in CompletedOrders, total_time \in {0, 3} :
          RecordOrderCompletion(order, total_time)
    \/ GetSummary

SpecMetrics == InitMetrics /\ [][NextMetrics]_vars

----------------------------------------------------------------------------
(* SpecNoEngine: a twin built where SimPy cannot be imported, so that      *)
(* self.env is None.                                                       *)

\* run_simulation without environment that raises instead of returning
RunSimulationNoEnv_Raises(duration) ==
    /\ phase = "unavailable"
    /\ phase' = "error"
    /\ ret' = [call |-> "run_simulation", args |-> <<duration>>]
    /\ UNCHANGED <<config, adapter, now, queue, pools, workers,
                   forklifts, orders, procs, gens, active_orders,
                   completed_orders, inventory, event_buffer, buffer_maxlen,
                   recorded, metrics, last_drift, drift_calls, rng,
                   scenario, results, subscribers, calib, orders_queue,
                   base_config>>

\* run_simulation(duration) when self.env is None: the error dictionary
RunSimulationNoEnv(duration) ==
    /\ phase = "unavailable"
    /\ ret' = [call |-> "run_simulation", args |-> <<duration>>,
               value |-> [error |-> "SimPy not available"]]
    /\ UNCHANGED <<config, adapter, now, queue, phase, pools, workers,
                   forklifts, orders, procs, gens, active_orders,
                   completed_orders, inventory, event_buffer, buffer_maxlen,
                   recorded, metrics, last_drift, drift_calls, rng,
                   scenario, results, subscribers, calib, orders_queue,
                   base_config>>

\* run_what_if_scenario(params) when self.env is None: the configuration
\* overridden and restored, _initialize_resources without effect, metrics
\* and order collections replaced by empty ones, run_simulation's error
\* dictionary as the results.  The overrides are set on the object given to
\* the constructor; self.config is a new object afterwards.
WhatIfNoEnv(params) ==
    /\ phase = "unavailable"
    /\ config' = from_dict(to_dict(config))
    /\ base_config' =
          IF base_config.is_self_config
          THEN [fields |-> ApplyOverrides(config, params),
                is_self_config |-> FALSE]
          ELSE base_config
    /\ metrics' = NewMetrics
    /\ completed_orders' = <<>>
    /\ active_orders' = EmptyMap
    /\ ret' = [call |-> "run_what_if_scenario", args |-> <<params>>,
               value |-> [scenario_params |-> params,
                          results |-> [error |-> "SimPy not available"]]]
    /\ UNCHANGED <<adapter, now, queue, phase, pools, workers, forklifts,
                   orders, procs, gens, inventory, event_buffer,
                   buffer_maxlen, recorded, last_drift, drift_calls, rng,
                   scenario, results, subscribers, calib, orders_queue>>

InitNoEngine ==
    \E nw \in 0..MaxCapacity, nf \in 0..MaxCapacity, n \in {0, NumSkus},
       r \in 0..MaxRngState :
        LET adp == Adapter("mock", TRUE, MockData(r, n))
        IN TwinStateWith([Config(nw, nf, <<1, 20>>) EXCEPT
                             !.num_storage_locations = n],
                         adp, SyncFromErp(adp), FALSE)

NextNoEngine ==
    \/ \E duration \in RunDurations : RunSimulationNoEnv(duration)
    \/ \E k \in 1..Len(ScenarioParams) : WhatIfNoEnv(ScenarioParams[k])

SpecNoEngine == InitNoEngine /\ [][NextNoEngine]_vars

----------------------------------------------------------------------------
(* SpecEdge: configurations at the edge, no storage location or a pool of  *)
(* capacity 0, next to a regular one.                                      *)

InitEdge ==
    \E nw \in 0..1, nf \in 0..1, n \in {0, NumSkus}, r \in 0..MaxRngState :
        Constructed([Config(nw, nf, <<1, 20>>) EXCEPT
                        !.num_storage_locations = n],
                    Adapter("mock", TRUE, MockData(r, n)))

NextEdge ==
    \/ (\E duration \in RunDurations : RunSimulation(MaxRuns, duration))
          /\ UNCHANGED others
    \/ GenArrive(PickMaxOrders, PoolMaxQty, PoolMaxPriority) /\ UNCHANGED others
    \/ ReleaseFired /\ UNCHANGED others
    \/ GenStart /\ UNCHANGED others
    \/ OrderStart /\ UNCHANGED others
    \/ WorkerGranted /\ UNCHANGED others
    \/ ForkliftGranted /\ UNCHANGED others
    \/ TravelDone /\ UNCHANGED others
    \/ PickDone /\ UNCHANGED others
    \/ PackWorkerGranted /\ UNCHANGED others
    \/ PackDone /\ UNCHANGED others
    \/ ShipDone /\ UNCHANGED others
    \/ StopAndReturn

SpecEdge == InitEdge /\ [][NextEdge]_vars

----------------------------------------------------------------------------
(* SpecDirect: order_process scheduled by the caller for an order of its   *)
(* own, env.process(twin.order_process(order)), whose lines may name a SKU *)
(* the twin's inventory does not hold; then run_simulation.                *)

\* A SKU that is no key of self.inventory
AbsentSku == NumSkus + 1

\* The lines of the caller's orders: one or two lines, each of SKU 1 or of
\* the absent SKU, of a quantity in 1..DirectMaxQty
DirectLines ==
    LET line == {OrderLine(s, q) : s \in {1, AbsentSku}, q \in 1..DirectMaxQty}
    IN {<<l>> : l \in line} \cup {<<l, m>> : l \in line, m \in line}

\* A duration that lets every order of SpecDirect arrive and go through the
\* one worker after the others: per order one arrival, two delays per line
\* (at most NumSkus lines; a handed-in order has at most two), one delay
\* for packing and one for shipping.
DirectTime == MaxDelay * DirectMaxOrders * (2 * NumSkus + 3) + 1

\* env.process(self.order_process(order)): the process is scheduled at the
\* current time; the order is in neither collection of the twin.
ProcessOrder(lines) ==
    /\ phase = "idle"
    /\ gens = <<>>
    /\ Len(orders) < DirectMaxOrders
    /\ orders' = Append(orders, Order(0, lines))
    /\ procs' = Append(procs, [pc |-> "start", line |-> 0, gen |-> 0,
                               order_start |-> None,
                               worker_req |-> 0, forklift_req |-> 0])
    /\ queue' = Process(queue, now, "order", Len(orders) + 1)
    /\ UNCHANGED <<config, now, phase, pools, workers, forklifts, gens,
                   active_orders, completed_orders, inventory, adapter,
                   event_buffer, buffer_maxlen, recorded, metrics,
                   last_drift, drift_calls>>

NextDirect ==
    \/ (\E lines \in DirectLines : ProcessOrder(lines)) /\ UNCHANGED others
    \/ RunSimulation(MaxRuns, DirectTime) /\ UNCHANGED others
    \/ GenArrive(DirectMaxOrders, PoolMaxQty, PoolMaxPriority)
          /\ UNCHANGED others
    \/ Step

SpecDirect == InitWhatIf /\ [][NextDirect]_vars

----------------------------------------------------------------------------
(* Claims.                                                                 *)

InUse(r) == Cardinality(pools[r].users)

\* C1: in every reachable state the number of worker tokens in use is
\* between 0 and num_workers, and the number of forklift tokens in use is
\* between 0 and num_forklifts.
C1_InUseWithinCapacity ==
    /\ InUse(workers) >= 0
    /\ InUse(workers) <= config.num_workers
    /\ InUse(forklifts) >= 0
    /\ InUse(forklifts) <= config.num_forklifts

\* Both pools saturated, with a process waiting on each.
C1_Witness ==
    /\ InUse(workers) = config.num_workers
    /\ InUse(forklifts) = config.num_forklifts
    /\ pools[workers].waiting # <<>>
    /\ pools[forklifts].waiting # <<>>

\* s is t with some elements dropped from its front
IsSuffix(s, t) ==
    /\ Len(s) <= Len(t)
    /\ s = SubSeq(t, Len(t) - Len(s) + 1, Len(t))

\* the processes of a sequence
Range(s) == {s[i] : i \in 1..Len(s)}

\* C2: waiters of a pool are granted in request order.  In every step, on
\* every pool: the processes that stay waiting keep their order, a process
\* that starts waiting goes behind all of them, and a process leaves the
\* wait queue only from its head and only into the pool's users.
C2_GrantInRequestOrder ==
    [][\A r \in 1..Len(pools) :
          LET w == pools[r].waiting
              w2 == pools'[r].waiting
              kept == SelectSeq(w2, LAMBDA p : p \in Range(w))
              left == Range(w) \ Range(w2)
          IN /\ IsSuffix(kept, w)
             /\ \E k \in 0..Len(w2) : kept = SubSeq(w2, 1, k)
             /\ \A p \in left : p = Head(w) /\ p \in pools'[r].users
             /\ Cardinality(left) <= 1]_vars

\* A process granted a worker while another, which asked after it, is
\* still waiting, with a packing request and a picking request in the
\* same wait queue.
C2_Witness ==
    \E a, b \in 1..Len(procs) :
        /\ a # b
        /\ procs[a].pc = "wait_worker"
        /\ procs[b].pc = "wait_pack_worker"
        /\ Len(pools[workers].waiting) >= 2
        /\ a \in Range(pools[workers].waiting)
        /\ b \in Range(pools[workers].waiting)

\* C3: the event log holds at most event_buffer_size events, and it always
\* holds exactly the latest recorded events, in recording order: recording
\* into a full log evicts the oldest event and nothing else.
C3_LogBoundedFifo ==
    /\ Len(event_buffer) <= config.event_buffer_size
    /\ Len(event_buffer) = Min(recorded, config.event_buffer_size)
    /\ \A i \in 1..Len(event_buffer) :
          event_buffer[i].seq = recorded - Len(event_buffer) + i

\* The log is full, events of an order and of a drift computation have
\* been recorded, and at least two events have been evicted.
C3_Witness ==
    /\ Len(event_buffer) = config.event_buffer_size
    /\ recorded >= config.event_buffer_size + 2
    /\ event_buffer[Len(event_buffer)].event_type = "calibration_trigger"
    /\ \E i \in 1..Len(event_buffer) :
          event_buffer[i].event_type = "order_status_changed"

\* C4: event identifiers strictly increase with recording order, so no two
\* events of the log share an event_id.
C4_SequentialIds ==
    \A i, j \in 1..Len(event_buffer) :
        i < j => event_buffer[i].event_id < event_buffer[j].event_id

\* C5: the values assigned to an order's status are RECEIVED, PICKING,
\* PICKED, PACKING, PACKED, SHIPPING, COMPLETED, in this order, one step of
\* the sequence per assignment; nothing is assigned after COMPLETED.
C5_StatusForwardOnly ==
    \A i \in 1..Len(orders) :
        LET tr == orders[i].trace
        IN /\ Len(tr) <= Len(StatusSeq)
           /\ tr = SubSeq(StatusSeq, 1, Len(tr))
           /\ orders[i].status = tr[Len(tr)]
           /\ procs[i].pc = "done" <=> orders[i].status = "completed"

\* An order is COMPLETED while another is still being picked.
C5_Witness ==
    \E i, j \in 1..Len(orders) :
        /\ orders[i].status = "completed"
        /\ orders[i].trace = StatusSeq
        /\ orders[j].status = "picking"

\* C6: for every order picked_items <= total_items, is_fully_picked holds
\* exactly when no line has a picked quantity below its ordered quantity
\* (equivalently, when picked_items = total_items), and no line's picked
\* quantity ever decreases.
C6_PickedWithinOrdered ==
    /\ [](\A i \in 1..Len(orders) :
            LET o == orders[i]
            IN /\ picked_items(o) <= total_items(o)
               /\ is_fully_picked(o) <=>
                     ~ \E k \in 1..Len(o.lines) :
                          o.lines[k].picked_quantity < o.lines[k].quantity
               /\ is_fully_picked(o) <=> picked_items(o) = total_items(o))
    /\ [][\A i \in 1..Len(orders) : \A k \in 1..Len(orders[i].lines) :
             orders'[i].lines[k].picked_quantity
                >= orders[i].lines[k].picked_quantity]_vars

\* An order with lines of quantity 2 and 3 (total_items 5) is fully picked.
C6_Witness ==
    \E i \in 1..Len(orders) :
        /\ Len(orders[i].lines) = 2
        /\ orders[i].lines[1].quantity = 2
        /\ orders[i].lines[2].quantity = 3
        /\ total_items(orders[i]) = 5
        /\ picked_items(orders[i]) = 5
        /\ is_fully_picked(orders[i])

\* a step that is a call of calculate_sync_drift
DriftCall == drift_calls' = drift_calls + 1

\* C7: a calculate_sync_drift call on a disconnected adapter returns exactly
\* 1.0 whatever the inventories, and leaves the event log and the
\* inventories unchanged.
C7_DisconnectedDriftIsOne ==
    [][(DriftCall /\ ~adapter.connected)
          => /\ last_drift'[1] = last_drift'[2]
             /\ UNCHANGED <<event_buffer, recorded, inventory, adapter>>]_vars

\* A call on a disconnected adapter has returned 1.0 although the drift of
\* the two inventories is not 1.0.
C7_Witness ==
    /\ drift_calls >= 1
    /\ ~adapter.connected
    /\ last_drift[1] = last_drift[2]
    /\ \E s \in DOMAIN inventory : s \in DOMAIN adapter.inventory
    /\ LET d == Drift(inventory, adapter.inventory) IN d[1] # d[2]

\* the twin's and the ERP's quantities agree on every SKU both hold
AgreeOnShared ==
    \A s \in DOMAIN inventory :
        s \in DOMAIN adapter.inventory
            => inventory[s] = adapter.inventory[s]

\* C8: a connected calculate_sync_drift call returns 0.0 whenever the two
\* inventories agree on every SKU present in both.
C8_EqualSharedGivesZero ==
    [][(DriftCall /\ adapter.connected /\ AgreeOnShared)
          => last_drift'[1] = 0]_vars

\* A connected call has returned 0.0 with a shared SKU in agreement and a
\* twin SKU with stock that the ERP does not hold.
C8_Witness ==
    /\ drift_calls >= 1
    /\ adapter.connected
    /\ last_drift[1] = 0
    /\ AgreeOnShared
    /\ \E s \in DOMAIN inventory : s \in DOMAIN adapter.inventory
    /\ \E s \in DOMAIN inventory :
          s \notin DOMAIN adapter.inventory /\ inventory[s] > 0

\* C9: every value returned by calculate_sync_drift is in [0.0, 1.0].
C9_DriftInUnitInterval ==
    /\ last_drift[1] >= 0
    /\ last_drift[1] <= last_drift[2]

\* C10: a connected calculate_sync_drift call records exactly one
\* CALIBRATION_TRIGGER event, carrying the drift and the threshold, when the
\* drift is strictly greater than sync_threshold, and records nothing
\* otherwise.
C10_TriggerIffAboveThreshold ==
    [][(DriftCall /\ adapter.connected)
          => LET d == last_drift'
                 th == config.sync_threshold
                 n == Len(event_buffer')
             IN IF d[1] * th[2] > th[1] * d[2]
                THEN /\ recorded' = recorded + 1
                     /\ n >= 1
                     /\ event_buffer'[n].event_type = "calibration_trigger"
                     /\ event_buffer'[n].data.drift = d
                     /\ event_buffer'[n].data.threshold = th
                     /\ IsSuffix(SubSeq(event_buffer', 1, n - 1),
                                 event_buffer)
                ELSE UNCHANGED <<event_buffer, recorded>>]_vars

\* A connected call with a drift above a non-zero threshold has recorded
\* the log's only event, a trigger carrying that drift.
C10_Witness ==
    /\ adapter.connected
    /\ drift_calls >= 1
    /\ recorded = 1
    /\ event_buffer[1].event_type = "calibration_trigger"
    /\ event_buffer[1].data.drift = last_drift
    /\ last_drift[1] * config.sync_threshold[2]
          > config.sync_threshold[1] * last_drift[2]
    /\ config.sync_threshold[1] > 0

\* C11: two twins built from the same configuration (same random_seed) and
\* run for the same duration return the same number of completed orders and
\* the same metrics summary.
C11_SameSeedSameResults ==
    (Len(results) = 2 /\ results[1].duration = results[2].duration)
        => /\ results[1].orders_completed = results[2].orders_completed
           /\ results[1].metrics = results[2].metrics

\* C12: with num_storage_locations = 0 the mock adapter's inventory (what
\* fetch_inventory returns) is empty, no order is ever created, active or
\* completed, and every run returns 0 completed orders and 0 in progress.
C12_NoLocationsNoOrders ==
    config.num_storage_locations = 0
        => /\ adapter.inventory = EmptyMap
           /\ inventory = EmptyMap
           /\ orders = <<>>
           /\ active_orders = EmptyMap
           /\ completed_orders = <<>>
           /\ \A i \in 1..Len(results) :
                 /\ results[i].orders_completed = 0
                 /\ results[i].orders_in_progress = 0

\* A run without storage locations has returned, after at least two
\* arrivals.
C12_Witness ==
    /\ config.num_storage_locations = 0
    /\ Len(results) = 1
    /\ results[1].orders_completed = 0
    /\ gens[1].order_count >= 2

\* C13: a configuration with num_workers = 0 is accepted: the twin is
\* constructed without error, and no order of it ever reaches COMPLETED.
C13_ZeroWorkersAccepted ==
    config.num_workers = 0
        => /\ phase # "error"
           /\ completed_orders = <<>>
           /\ \A i \in 1..Len(orders) : orders[i].status # "completed"

\* The callbacks each received exactly one more event, the same one, of
\* the given type and numbered by the adapter's new counter.
OneEventDelivered(event_type) ==
    /\ adapter'.event_counter = adapter.event_counter + 1
    /\ Len(subscribers') = Len(subscribers)
    /\ \A i \in 1..Len(subscribers) :
          /\ Len(subscribers'[i]) = Len(subscribers[i]) + 1
          /\ SubSeq(subscribers'[i], 1, Len(subscribers[i])) = subscribers[i]
          /\ subscribers'[i][Len(subscribers'[i])].event_type = event_type
          /\ subscribers'[i][Len(subscribers'[i])].event_id =
                adapter'.event_counter

\* C14: on the mock adapter, update_inventory with an unknown SKU and
\* update_order_status with an unknown order id return false, change nothing
\* and deliver no event; with a known key they return true, apply the change
\* and deliver exactly one event to every subscriber.
C14_UnknownKeyNoEffect ==
    [][/\ ret'.call = "update_inventory" =>
            LET sku == ret'.args[1]
                change == ret'.args[2]
            IN IF sku \in DOMAIN adapter.inventory
               THEN /\ ret'.value = TRUE
                    /\ adapter'.inventory =
                          [adapter.inventory EXCEPT ![sku] = @ + change]
                    /\ adapter'.orders = adapter.orders
                    /\ OneEventDelivered("inventory_updated")
               ELSE /\ ret'.value = FALSE
                    /\ adapter' = adapter
                    /\ subscribers' = subscribers
       /\ ret'.call = "update_order_status" =>
            LET id == ret'.args[1]
                status == ret'.args[2]
            IN IF id \in DOMAIN adapter.orders
               THEN /\ ret'.value = TRUE
                    /\ adapter'.orders =
                          [adapter.orders EXCEPT ![id].status = status]
                    /\ adapter'.inventory = adapter.inventory
                    /\ OneEventDelivered("order_status_changed")
               ELSE /\ ret'.value = FALSE
                    /\ adapter' = adapter
                    /\ subscribers' = subscribers]_vars

\* With two subscribers, a status update of a known order has delivered its
\* event and a later update with an unknown SKU has returned false.
C14_Witness ==
    /\ ret.call = "update_inventory"
    /\ ret.value = FALSE
    /\ ret.args[1] \notin DOMAIN adapter.inventory
    /\ Len(subscribers) = MaxSubscribers
    /\ adapter.event_counter >= 2
    /\ \A i \in 1..Len(subscribers) :
          /\ Len(subscribers[i]) = 2
          /\ subscribers[i][1].event_type = "order_created"
          /\ subscribers[i][2].event_type = "order_status_changed"

\* C15: once run_what_if_scenario has returned, the configuration has the
\* value it had before the call in every field, whatever the overrides, and
\* the worker and forklift pools have the original capacities.
C15_ConfigRestoredOnReturn ==
    scenario.outcome = "returned"
        => /\ config = scenario.original_config
           /\ pools[workers].capacity = scenario.original_config.num_workers
           /\ pools[forklifts].capacity =
                 scenario.original_config.num_forklifts

\* A scenario that ran with another number of workers has returned after
\* a baseline run.
C15_Witness ==
    /\ scenario.outcome = "returned"
    /\ Len(results) = 2
    /\ Len(pools) = 6
    /\ pools[workers - 2].capacity # pools[workers].capacity

\* C16: a what-if run starts at virtual time zero and simulates the full
\* simulation_time, whether or not run_simulation was called before.
C16_ScenarioFromTimeZero ==
    scenario.outcome \in {"running", "returned"}
        => /\ scenario.start = 0
           /\ scenario.outcome = "returned"
                 => now - scenario.start = scenario.simulation_time

\* C17: while a scenario runs and when it has returned, every completed
\* order was created by the scenario's own generator; while it runs, that
\* generator is the only one with a pending arrival and no order of an
\* earlier generator uses or waits for the scenario's pools.
C17_ScenarioOwnProcessesOnly ==
    scenario.outcome \in {"running", "returned"}
        => /\ \A k \in 1..Len(completed_orders) :
                 procs[completed_orders[k]].gen = scenario.gen
           /\ scenario.active
                 => /\ \A k \in 1..Len(queue) :
                          queue[k].who = "gen" => queue[k].proc = scenario.gen
                    /\ \A r \in {workers, forklifts} :
                          \A p \in pools[r].users \cup Range(pools[r].waiting) :
                             procs[p].gen = scenario.gen

\* a = b for fractions <<numerator, denominator>>
FracEq(a, b) == a[1] * b[2] = b[1] * a[2]

\* C18: calibrating from a log of N >= 1 orders, each created, picked 3
\* minutes later and packed 2 minutes after that, returns pick_time_mean = 3
\* and pack_time_mean = 2, both keys present, however the events of
\* different orders interleave.
C18_FixedGapsGiveThreeAndTwo ==
    (/\ calib.called
     /\ calib.events # <<>>
     /\ \A id \in CalibOrders : Len(EventsOf(calib.events, id)) \in {0, 3})
        => /\ {"pick_time_mean", "pack_time_mean"}
                 \subseteq DOMAIN calib.calibrated
           /\ FracEq(calib.calibrated["pick_time_mean"], <<PickGap, 1>>)
           /\ FracEq(calib.calibrated["pack_time_mean"], <<PackGap, 1>>)

\* Two orders created at different minutes, the second one's events lying
\* between the first one's, have been calibrated from.
C18_Witness ==
    /\ calib.called
    /\ Len(calib.events) = 6
    /\ calib.events[1].order_id = 1
    /\ calib.events[2].order_id = 2
    /\ calib.events[6].order_id = 1
    /\ calib.events[1].timestamp # calib.events[2].timestamp
    /\ FracEq(calib.calibrated["pick_time_mean"], <<PickGap, 1>>)
    /\ FracEq(config.pack_time_mean, <<PackGap, 1>>)

\* C19: calibration counts a picked event only when its timestamp follows
\* the created timestamp of the same order, and a packed event only when it
\* follows the picked one, so every duration sample is non-negative.
C19_SamplesNonNegative ==
    calib.called
        => /\ \A i \in 1..Len(calib.pick_times) : calib.pick_times[i] >= 0
           /\ \A i \in 1..Len(calib.pack_times) : calib.pack_times[i] >= 0

\* C20: calibration uses only the first picked and the first packed event
\* of an order id, so a log yields at most one pick sample and one pack
\* sample per order id.
C20_OneSamplePerOrder ==
    calib.called
        => LET ids == {calib.events[i].order_id :
                          i \in 1..Len(calib.events)}
           IN /\ Len(calib.pick_times) <= Cardinality(ids)
              /\ Len(calib.pack_times) <= Cardinality(ids)

\* Some event of the log yields a sample: a picked event that comes after a
\* created event of the same order.
Qualifies(events) ==
    \E i, j \in 1..Len(events) :
        /\ i < j
        /\ events[i].event_type = "order_created"
        /\ events[j].new_status = "picked"
        /\ events[i].order_id = events[j].order_id

\* C21: a call of calibrate_from_erp_logs appends exactly one record (event
\* count, returned parameters) to the calibration history and leaves the
\* earlier records as they were; it overwrites the configuration fields
\* named in the returned mapping with the returned values and leaves every
\* other field unchanged; when no event qualifies the returned mapping is
\* empty and the configuration is unchanged.
C21_CalibrationFrame ==
    [][(~calib.called /\ calib'.called) =>
          LET before == calib.calibration_data
              after == calib'.calibration_data
              returned == calib'.calibrated
          IN /\ Len(after) = Len(before) + 1
             /\ SubSeq(after, 1, Len(before)) = before
             /\ after[Len(after)].num_events = Len(calib.events)
             /\ after[Len(after)].calibrated_params = returned
             /\ DOMAIN config' = DOMAIN config
             /\ \A k \in DOMAIN config :
                   config'[k] = IF k \in DOMAIN returned THEN returned[k]
                                ELSE config[k]
             /\ ~Qualifies(calib.events) =>
                   /\ DOMAIN returned = {}
                   /\ config' = config]_vars

\* A second call, on a log with a complete order, has returned parameters
\* after a first call on a log in which no event qualified.
C21_Witness ==
    /\ calib.called
    /\ Len(calib.calibration_data) = 2
    /\ DOMAIN calib.calibration_data[1].calibrated_params = {}
    /\ calib.calibration_data[1].num_events = 1
    /\ calib.calibration_data[2].num_events = 3
    /\ DOMAIN calib.calibrated =
          {"pick_time_mean", "pick_time_std", "pack_time_mean",
           "pack_time_std"}
    /\ config.pick_time_mean = calib.calibrated["pick_time_mean"]
    /\ config.pick_time_mean # <<2, 1>>

\* C22: record_order_completion appends pick_end_time - pick_start_time to
\* the pick durations whenever both pick timestamps are present, whatever
\* their values (a phase may start at time 0), and likewise for pack; it
\* always adds one to orders_completed, total_items to the item total and
\* total_time to the order durations.
C22_PhaseSamplesWheneverPresent ==
    [][ret'.call = "record_order_completion" =>
          LET o == ret'.order
          IN /\ metrics'.orders_completed = metrics.orders_completed + 1
             /\ metrics'.total_items_picked =
                   metrics.total_items_picked + total_items(o)
             /\ metrics'.order_times =
                   Append(metrics.order_times, ret'.total_time)
             /\ metrics'.pick_times =
                   IF o.pick_end_time # None /\ o.pick_start_time # None
                   THEN Append(metrics.pick_times,
                               o.pick_end_time - o.pick_start_time)
                   ELSE metrics.pick_times
             /\ metrics'.pack_times =
                   IF o.pack_end_time # None /\ o.pack_start_time # None
                   THEN Append(metrics.pack_times,
                               o.pack_end_time - o.pack_start_time)
                   ELSE metrics.pack_times]_vars

\* C23: get_summary returns normally after any record_order_completion
\* calls, and throughput_orders_per_hour is present exactly when an order
\* completed and the average order time is > 0, and then is 60 divided by
\* that average.
C23_SummaryNeverDividesByZero ==
    ret.call = "get_summary"
        => LET summary == ret.value
           IN /\ ~summary.raised
              /\ summary.has_throughput <=>
                    /\ metrics.orders_completed > 0
                    /\ metrics.total_order_time > 0
              /\ summary.has_throughput =>
                    summary.throughput_orders_per_hour[1]
                          * summary.avg_order_time[1]
                       = 60 * summary.avg_order_time[2]
                            * summary.throughput_orders_per_hour[2]

\* C24: every status the fulfillment process assigns to an order (picking,
\* picked, packing, packed, shipping, completed) is recorded in the event
\* log, as an ORDER_STATUS_CHANGED event of that order and status, in the
\* step that assigns it.
C24_EveryTransitionRecorded ==
    [][\A i \in 1..Len(orders) :
          LET old == Len(orders[i].trace)
              new == Len(orders'[i].trace)
          IN \A k \in (old + 1)..new :
                \E n \in 1..Len(event_buffer') :
                   /\ event_buffer'[n].seq > recorded
                   /\ event_buffer'[n].event_type = "order_status_changed"
                   /\ event_buffer'[n].data.order_id = orders[i].order_id
                   /\ event_buffer'[n].data.status = orders'[i].trace[k]
      ]_vars

\* C25: each emission of the mock adapter (order created, order status
\* changed, inventory updated) calls every callback subscribed so far
\* exactly once, in subscription order, within the emitting call; a callback
\* receives the events in emission order, with strictly increasing
\* identifiers, and nothing is delivered without an emission.
C25_CallbacksOncePerEventInOrder ==
    [][/\ \A i \in 1..Len(subscribers) :
             \A k \in 1..Len(subscribers[i]) :
                /\ subscribers[i][k].call_no = i
                /\ k > 1 => subscribers[i][k].event_id >
                               subscribers[i][k - 1].event_id
       /\ IF adapter'.event_counter # adapter.event_counter
          THEN /\ adapter'.event_counter = adapter.event_counter + 1
               /\ Len(subscribers') = Len(subscribers)
               /\ \A i \in 1..Len(subscribers) :
                     LET received == subscribers'[i]
                         event == received[Len(received)]
                     IN /\ Len(received) = Len(subscribers[i]) + 1
                        /\ SubSeq(received, 1, Len(subscribers[i])) =
                              subscribers[i]
                        /\ event.event_id = adapter'.event_counter
                        /\ event.call_no = i
                        /\ event.event_type \in
                              {"order_created", "order_status_changed",
                               "inventory_updated"}
                        /\ event.event_type = subscribers'[1][
                              Len(subscribers'[1])].event_type
          ELSE \/ subscribers' = subscribers
               \/ subscribers' = Append(subscribers, <<>>)]_vars

\* The second callback, subscribed after the first event, has received the
\* two later events, the first callback all three.
C25_Witness ==
    /\ Len(subscribers) = 2
    /\ adapter.event_counter = 3
    /\ Len(subscribers[1]) = 3
    /\ Len(subscribers[2]) = 2
    /\ subscribers[2][1].event_id = 2
    /\ subscribers[2][2].event_id = 3
    /\ subscribers[1][3].event_type = "inventory_updated"
    /\ subscribers[2][2].call_no = 2

\* C26: a pick changes only the twin's own inventory quantities; the
\* quantities held by the ERP adapter the twin was synced from stay as they
\* were.
C26_PickLeavesAdapterInventory ==
    [][inventory' # inventory =>
          adapter'.inventory = adapter.inventory]_vars

\* C27: on a twin without simulation engine, run_simulation and
\* run_what_if_scenario return a structured error result instead of
\* raising; they create no order, record no event and change no metrics.
C27_NoEngineErrorResult ==
    [][(phase = "unavailable"
          /\ ret'.call \in {"run_simulation", "run_what_if_scenario"}) =>
          /\ phase' = "unavailable"
          /\ IF ret'.call = "run_simulation"
             THEN ret'.value.error = "SimPy not available"
             ELSE ret'.value.results.error = "SimPy not available"
          /\ orders' = orders
          /\ active_orders' = active_orders
          /\ completed_orders' = completed_orders
          /\ gens' = gens
          /\ queue' = queue
          /\ event_buffer' = event_buffer
          /\ recorded' = recorded
          /\ metrics' = metrics
          /\ config' = config]_vars

\* A what-if call that asked for more workers has returned the error result
\* on a twin without engine, configured with no worker.
C27_Witness ==
    /\ phase = "unavailable"
    /\ ret.call = "run_what_if_scenario"
    /\ ret.value.results.error = "SimPy not available"
    /\ "num_workers" \in DOMAIN ret.value.scenario_params
    /\ config.num_workers = 0
    /\ pools = <<>>

\* The places of order i in the completed list
CompletedAt(comp, i) == {k \in 1..Len(comp) : comp[k] = i}

\* Order i is a value of the active dictionary
IsActive(act, i) == \E k \in DOMAIN act : act[k] = i

\* C28: within a run, every order created by the run's arrival generator is
\* in exactly one of the active map and the completed list, and it is in the
\* completed list, at most once, exactly when its status is COMPLETED.
\* order_generator stores the order under its order_id (core.py:634) and
\* order_process deletes that key on completion (core.py:577-578); the
\* generator of a later run restarts order_count at 0 (core.py:588), so an
\* order of the earlier run that completes deletes the later order's entry.
C28_ActiveOrCompleted ==
    \A i \in 1..Len(orders) :
        procs[i].gen = Len(gens) =>
            /\ IsActive(active_orders, i)
                  # (CompletedAt(completed_orders, i) # {})
            /\ CompletedAt(completed_orders, i) # {}
                  <=> orders[i].status = "completed"
            /\ Cardinality(CompletedAt(completed_orders, i)) <= 1

\* Order process i is a user of the Worker pool it requested from
HoldsWorker(i) ==
    /\ procs[i].worker_req # 0
    /\ i \in pools[procs[i].worker_req].users

\* C29: in every reachable state an order whose status is PICKING or
\* PACKING holds a Worker token, so the status and its event come no earlier
\* than the acquisition.  order_process sets the status, and records the
\* PICKING event, before it yields on workers.request() (core.py:490-500,
\* 543-547).
C29_PickingPackingHoldsWorker ==
    \A i \in 1..Len(orders) :
        orders[i].status \in {"picking", "packing"} => HoldsWorker(i)

\* Order process i is a user of pool r
Holds(r, i) == i \in pools[r].users

\* The token discipline of order_process in one state: a Forklift token
\* only together with a Worker token, no request pending on a pool whose
\* token the process holds and no two requests pending on one pool, no
\* token from PACKED onwards, and no more forklifts than workers in use.
TokenDiscipline ==
    /\ \A i \in 1..Len(orders) :
          /\ Holds(forklifts, i) => Holds(workers, i)
          /\ \A r \in {workers, forklifts} :
                /\ ~(Holds(r, i) /\ i \in Range(pools[r].waiting))
                /\ Cardinality({k \in 1..Len(pools[r].waiting) :
                                   pools[r].waiting[k] = i}) <= 1
          /\ orders[i].status \in {"packed", "shipping", "completed"}
                => ~Holds(workers, i) /\ ~Holds(forklifts, i)
    /\ Cardinality(pools[forklifts].users)
          <= Cardinality(pools[workers].users)

\* C30 as stated: within a single run the token discipline holds in every
\* state, and every token an order process holds is eventually released.
\* env.run(until) returns when the until event fires (core.py:663) and
\* leaves the processes suspended where they are, so a token held at that
\* moment stays held.
C30_TokensEventuallyReleased ==
    /\ []TokenDiscipline
    /\ \A i \in 1..MaxOrders :
          \A r \in {1, 2} :
             (i <= Len(orders) /\ Holds(r, i))
                ~> ~(i <= Len(orders) /\ Holds(r, i))

\* C30, amended: within a single run the token discipline holds in every
\* state, and a token leaves a pool only in a step of the order process
\* that holds it.
C30_TokenDiscipline ==
    [][/\ TokenDiscipline'
       /\ \A i \in 1..Len(orders) :
             \A r \in {workers, forklifts} :
                (Holds(r, i) /\ i \notin pools'[r].users)
                   => /\ Head(queue).who = "order"
                      /\ Head(queue).proc = i]_vars

\* One order picks with both tokens while another, past PACKED, holds no
\* Worker token, after an earlier order has completed.
C30_Witness ==
    \E i \in 1..Len(orders) :
       \E j \in 1..Len(orders) :
          /\ Holds(forklifts, i)
          /\ Holds(workers, i)
          /\ procs[i].pc = "pick"
          /\ orders[j].status = "shipping"
          /\ ~Holds(workers, j)
          /\ metrics.orders_completed > 0

\* Nothing more is scheduled for the current instant
InstantDone == queue = <<>> \/ Head(queue).t > now

\* C31: once everything scheduled for an instant has run, a pool has
\* waiters only if all of its tokens are in use: a released slot goes to the
\* head waiter at the time of the release.
C31_WaitersOnlyWhenFull ==
    InstantDone =>
        \A r \in 1..Len(pools) :
            pools[r].waiting # <<>>
                => Cardinality(pools[r].users) = pools[r].capacity

\* A pool is full with a waiter at the end of an instant, after a token of
\* that pool was released and handed over (an order has gone past PACKED).
C31_Witness ==
    /\ InstantDone
    /\ pools[workers].waiting # <<>>
    /\ Cardinality(pools[workers].users) = pools[workers].capacity
    /\ \E i \in 1..Len(orders) : orders[i].status = "shipping"

\* The process of order i waits for a token of pool r
Waiting(r, i) == i \in Range(pools[r].waiting)

\* The process of order i has an event in the queue
Scheduled(i) ==
    \E k \in 1..Len(queue) : queue[k].who = "order" /\ queue[k].proc = i

\* The step is the end of the pick of line j of order i
PickStep(i, j) ==
    /\ OrderFiring("timeout", "pick")
    /\ Head(queue).proc = i
    /\ procs[i].line = j

\* What the end of the pick of line j of order i does
PickEffect(i, j) ==
    LET line == orders[i].lines[j]
    IN /\ orders'[i].lines[j].picked_quantity = line.quantity
       /\ phase' = "running"
       /\ procs'[i].pc # "pick"
       /\ j = Len(orders[i].lines)
             => /\ orders'[i].status = "packing"
                /\ orders'[i].pick_end_time = now'
       /\ IF line.sku \in DOMAIN inventory
          THEN /\ inventory' = [inventory EXCEPT
                                   ![line.sku] = @ - line.quantity]
               /\ recorded' = recorded + 1
               /\ LET event == event_buffer'[Len(event_buffer')]
                  IN /\ event.event_type = "inventory_updated"
                     /\ event.data.sku = line.sku
                     /\ event.data.change = 0 - line.quantity
          ELSE /\ inventory' = inventory
               /\ adapter' = adapter
               /\ event_buffer' = event_buffer
               /\ recorded' = recorded

\* Order i has a line whose SKU the inventory does not hold
HasAbsentSku(i) ==
    \E j \in 1..Len(orders[i].lines) :
        orders[i].lines[j].sku \notin DOMAIN inventory

InFlight(s) ==
    {i \in 1..Len(orders) :
        /\ orders[i].status # "completed"
        /\ \E j \in 1..Len(orders[i].lines) : orders[i].lines[j].sku = s}

\* C33: while at most one order with a line of a SKU is in flight at a
\* time, the SKU's on-hand quantity is never below zero.  order_generator
\* draws the line quantity from 1..3 whatever the on-hand quantity is
\* (core.py:621) and order_process subtracts it (core.py:530).
C33_NonNegativeWithoutConcurrency ==
    \A s \in DOMAIN inventory :
        Cardinality(InFlight(s)) <= 1 => inventory[s] >= 0

\* C34: an order the arrival generator creates has at least one line, its
\* lines name pairwise distinct SKUs that each had a positive on-hand
\* quantity when it was created, every line quantity is in 1..3 and the
\* priority in 1..5; an arrival that finds no SKU in stock creates no order,
\* records no event and starts no order process.
C34_GeneratedOrderShape ==
    [][Firing("timeout", "gen") =>
          /\ Len(orders') > Len(orders) =>
                LET o == orders'[Len(orders')]
                IN /\ Len(orders') = Len(orders) + 1
                   /\ Len(o.lines) >= 1
                   /\ \A j \in 1..Len(o.lines) :
                         /\ o.lines[j].sku \in DOMAIN inventory
                         /\ inventory[o.lines[j].sku] > 0
                         /\ o.lines[j].quantity \in 1..3
                         /\ \A k \in 1..Len(o.lines) :
                               o.lines[j].sku = o.lines[k].sku => j = k
                   /\ o.priority \in 1..5
          /\ (\A s \in DOMAIN inventory : inventory[s] <= 0) =>
                /\ orders' = orders
                /\ procs' = procs
                /\ active_orders' = active_orders
                /\ event_buffer' = event_buffer
                /\ recorded' = recorded
                /\ \A k \in 1..Len(queue') : queue'[k].who # "order"
                      \/ \E m \in 1..Len(queue) : queue[m] = queue'[k]]_vars

\* An order of two lines of different SKUs, the first of quantity 3, with
\* priority 5, was created and is being picked.
C34_Witness ==
    /\ Len(orders) = 1
    /\ Len(orders[1].lines) = 2
    /\ orders[1].lines[1].quantity = 3
    /\ orders[1].priority = 5
    /\ orders[1].lines[1].sku # orders[1].lines[2].sku
    /\ orders[1].status = "picking"

\* An arrival found nothing in stock: the generator has counted an arrival
\* more than there are orders.
C34_WitnessNoStock ==
    /\ gens # <<>>
    /\ gens[1].order_count > Len(orders)
    /\ \A s \in DOMAIN inventory : inventory[s] <= 0

\* The place of an event in the life of its order
Rank(event) ==
    IF event.event_type = "order_created" THEN 0
    ELSE IF event.event_type = "worker_assigned" THEN 2
    ELSE IF event.data.status = "picking" THEN 1
    ELSE 3

\* The events kept in the buffer that name an order are in lifecycle order,
\* each kind at most once per order.
BufferInLifecycleOrder(buf) ==
    \A m \in 1..Len(buf) :
       \A n \in 1..Len(buf) :
          (/\ m < n
           /\ buf[m].data.order_id # 0
           /\ buf[m].data.order_id = buf[n].data.order_id)
             => Rank(buf[m]) < Rank(buf[n])

\* No line of order i is picked yet
NothingPicked(i) ==
    \A j \in 1..Len(orders[i].lines) : orders[i].lines[j].picked_quantity = 0

\* No two orders carry the same order_id
UniqueIds(os) ==
    \A i \in 1..Len(os) :
       \A k \in 1..Len(os) : os[i].order_id = os[k].order_id => i = k

\* The step records an event; where the order of the recording process
\* stands when it does
RecordedInOrder ==
    recorded' # recorded =>
        LET event == event_buffer'[Len(event_buffer')]
            who == Head(queue).who
            i == Head(queue).proc
        IN /\ recorded' = recorded + 1
           /\ event.seq = recorded'
           /\ event.event_type = "order_created"
                 <=> /\ who = "gen"
                     /\ Len(orders') = Len(orders) + 1
                     /\ orders'[Len(orders')].order_id = event.data.order_id
                     /\ orders'[Len(orders')].status = "received"
           /\ who = "order" =>
                 /\ event.event_type # "inventory_updated"
                       => event.data.order_id = orders[i].order_id
                 /\ (/\ event.event_type = "order_status_changed"
                     /\ event.data.status = "picking")
                       => /\ orders[i].status = "received"
                          /\ procs[i].pc = "start"
                 /\ event.event_type = "worker_assigned"
                       => /\ orders[i].status = "picking"
                          /\ procs[i].pc = "wait_worker"
                          /\ NothingPicked(i)
                 /\ event.event_type = "inventory_updated"
                       => /\ orders[i].status = "picking"
                          /\ procs[i].pc = "pick"
                          /\ Holds(procs[i].worker_req, i)
                 /\ (/\ event.event_type = "order_status_changed"
                     /\ event.data.status = "completed")
                       => /\ orders[i].status = "shipping"
                          /\ orders'[i].status = "completed"
                          /\ procs'[i].pc = "done"
                          /\ ~NothingPicked(i)

\* C35: the events of an order are recorded in lifecycle order: created
\* before any other, picking before worker assigned, worker assigned before
\* every inventory update of its lines, completed last and at most once.
\* The events name the order by its order_id, so the buffer shows the order
\* of an order's events as long as no two orders share an identifier.
C35_EventsInLifecycleOrder ==
    [][/\ UniqueIds(orders') => BufferInLifecycleOrder(event_buffer')
       /\ RecordedInOrder
       /\ \A i \in 1..Len(orders) :
             orders[i].status = "completed"
                => /\ orders'[i] = orders[i]
                   /\ procs'[i] = procs[i]]_vars

\* The buffer holds the events of two orders: one order is assigned its
\* worker and updates the inventory, then the other one is completed.
C35_Witness ==
    /\ Len(event_buffer) = EventBufferSize
    /\ event_buffer[1].event_type = "worker_assigned"
    /\ event_buffer[2].event_type = "inventory_updated"
    /\ event_buffer[3].event_type = "order_status_changed"
    /\ event_buffer[3].data.status = "completed"
    /\ event_buffer[1].data.order_id # event_buffer[3].data.order_id
    /\ metrics.orders_completed = 1

\* The release of a token of pool r is in the queue
ReleasePending(r) ==
    \E k \in 1..Len(queue) : queue[k].kind = "release" /\ queue[k].pool = r

\* C36: with at least one worker and one forklift the order processes
\* neither deadlock nor starve.  An order that is not completed is scheduled
\* or waits in one pool; who waits for a forklift waits for a process that
\* is scheduled or for a release in the queue, who waits for a worker waits
\* for a process that is scheduled or waits for a forklift, or for a release
\* in the queue; and when the run has lasted long enough after the last
\* arrival, every order created is completed.
C36_NoDeadlockNoStarvation ==
    /\ \A i \in 1..Len(orders) :
          orders[i].status # "completed"
             => /\ Scheduled(i) # (Waiting(workers, i) \/ Waiting(forklifts, i))
                /\ ~(Waiting(workers, i) /\ Waiting(forklifts, i))
                /\ Waiting(forklifts, i)
                      => \/ ReleasePending(forklifts)
                         \/ \E k \in pools[forklifts].users :
                               k # i /\ Scheduled(k)
                /\ Waiting(workers, i)
                      => \/ ReleasePending(workers)
                         \/ \E k \in pools[workers].users :
                               /\ k # i
                               /\ Scheduled(k) \/ Waiting(forklifts, k)
    /\ (phase = "idle" /\ gens # <<>>)
          => \A i \in 1..Len(orders) : orders[i].status = "completed"

\* The run is over and both orders are completed, the second one after it
\* waited for the only worker.
C36_Witness ==
    /\ phase = "idle"
    /\ now = LongTime
    /\ Len(orders) = LongMaxOrders
    /\ \A i \in 1..Len(orders) : orders[i].status = "completed"
    /\ config.num_workers = 1
    /\ orders[2].pick_start_time < orders[1].pick_end_time
    /\ orders[1].pack_start_time < orders[2].pick_end_time

\* C37: in every reachable state the metrics agree with the completed
\* list: orders_completed is its length and the length of order_times, and
\* total_items_picked is the sum of total_items over its orders; the
\* what-if call replaces the metrics and the list together.
C37_MetricsAgreeWithCompleted ==
    /\ metrics.orders_completed = Len(completed_orders)
    /\ Len(metrics.order_times) = Len(completed_orders)
    /\ Len(metrics.items_per_order) = Len(completed_orders)
    /\ metrics.total_items_picked =
          SumSeq([k \in 1..Len(completed_orders) |->
                     total_items(orders[completed_orders[k]])])

\* The baseline run completed an order of one item, and the what-if call
\* has replaced the metrics and the list since.
C37_Witness ==
    /\ scenario.outcome # "none"
    /\ Len(results) >= 1
    /\ results[1].orders_completed = 1
    /\ results[1].metrics.total_items_picked = 1
    /\ completed_orders = <<>>
    /\ metrics = NewMetrics

\* C38: over the twin's lifetime no two orders its generators created share
\* an order_id, also when run_simulation is called more than once, so that
\* an entry of active_orders is always the order it was stored for.
\* order_generator counts from 0 in every call (core.py:588, 601, 628).
C38_OrderIdsUnique ==
    /\ UniqueIds(orders)
    /\ \A k \in DOMAIN active_orders :
          orders[active_orders[k]].status # "completed"

\* C39: the RECEIVED orders synced from the adapter at construction stay
\* in the pending queue as they are: run_simulation and run_what_if_scenario
\* take none out, start no process for them and leave their status, so
\* that none is counted as active or completed.
C39_PendingOrdersUntouched ==
    /\ orders_queue = FetchOrders(adapter, "received")
    /\ \A k \in 1..Len(orders_queue) :
          adapter.orders[orders_queue[k]].status = "received"
    /\ Len(procs) = Len(orders)
    /\ \A i \in 1..Len(procs) : procs[i].gen \in 1..Len(gens)
    /\ Cardinality(DOMAIN active_orders) + Len(completed_orders)
          <= Len(orders)
    /\ \A n \in 1..Len(results) :
          results[n].orders_completed + results[n].orders_in_progress
             <= Len(orders)

\* One of two ERP orders is pending, the other one was picked before the
\* twin was built; a baseline run and a what-if call have returned, and the
\* scenario completed an order of its generators.
C39_Witness ==
    /\ orders_queue = <<2>>
    /\ adapter.orders[1].status = "picked"
    /\ Len(results) = 2
    /\ results[2].orders_completed = 1
    /\ scenario.outcome = "returned"

\* C40: once run_what_if_scenario has returned, the SimulationConfig object
\* that was given to the constructor has the field values it had when the
\* call began (the values the call saved in original_config).
C40_CallerConfigUntouched ==
    scenario.outcome = "returned" =>
        to_dict(base_config.fields) = scenario.original_config

====
